---- MODULE Spec2Model ----
(***************************************************************************)
(* A model of the V8 baseline ("full") code generator and of the code stub *)
(* cache.                                                                  *)
(*                                                                         *)
(*   Part I   the code stub cache (src/src/code-stubs.cc) together with    *)
(*            the macro-assembler entry points that request stubs while a  *)
(*            stub is being generated.                 specification       *)
(*            SpecStub.                                                    *)
(*   Part II  the code generator (src/src/full-codegen.cc): the function   *)
(*            is compiled by MakeCode into a sequence of instructions,     *)
(*            and the emitted code is then executed instruction by         *)
(*            instruction on a model of the ia32 stack, result register    *)
(*            and exception handler chain.       specification SpecCg.     *)
(***************************************************************************)
EXTENDS Integers, Sequences, FiniteSets, TLC

VARIABLES
    code_stubs,     \* Heap::code_stubs(): the shared dictionary, StubKey -> code object
    custom_cache,   \* the fixed slot of every stub kind with has_custom_cache()
    heap,           \* the code objects allocated so far; an object is its index
    counter,        \* Counters::code_stubs
    last,           \* the most recent call of a caller of Part I and what it returned
    got,            \* StubKey -> object, as returned by earlier GetCode calls (no custom cache)
    given,          \* every <<StubKey, object>> handed out by GetCode / TryGetCode
    prog,           \* the FunctionLiteral handed to MakeCode: the statements of its body
    code,           \* the instructions emitted by the code generator
    bound,          \* label -> position of the instruction the label is bound to
    jumps,          \* one record per break/continue/return compiled: its Exit calls
    logical,        \* one record per logical operation compiled: contexts of its operands
    status,         \* "idle" before MakeCode, then the state of the running code
    pc,             \* position of the next instruction to execute
    stack,          \* the machine stack above the frame's locals; the last element is the top
    eax,            \* the result register
    esi,            \* the context register: the number of contexts entered by the code
    handler,        \* Top::k_handler_address: stack height of the innermost handler, 0 if none
    frame,          \* variable -> value: the frame's local slots and the global variables
    trace,          \* what the running code has done so far, in order
    function_scope, \* the function's Scope: its declarations, and the compiler's stack limit
    targets,        \* one record per block, loop and try statement compiled: its labels
    made,           \* what MakeCode returned and what the code generator did on the way
    gate,           \* the FullCodeGenSyntaxChecker: the function checked and the outcome
    record_write,   \* the RecordWriteStub constructed last and its minor key
    masm            \* the MacroAssembler of a stub's GenerateCode, and the cache it works on

stubVars == <<code_stubs, custom_cache, heap, counter, last, got, given>>

cgVars == <<prog, code, bound, jumps, logical, status, pc, stack, eax, esi, handler, frame, trace,
            function_scope, targets, made>>

gateVars == <<gate>>

keyVars == <<record_write>>

masmVars == <<masm>>

vars == <<code_stubs, custom_cache, heap, counter, last, got, given,
          prog, code, bound, jumps, logical, status, pc, stack, eax, esi, handler, frame, trace,
          function_scope, targets, made, gate, record_write, masm>>

(***************************************************************************)
(* Part I.  The code stub cache                                            *)
(***************************************************************************)

\* Largest minor key of the parameterised stub kinds.
MaxMinor == 1

\* Generations / code objects after which no further top-level call is made.
MaxCode == 3

\* The stub kinds of the model.  RecordWrite is a leaf (its generator,
\* RecordWriteStub::Generate, calls no stub); a RuntimeStub and the
\* StackCheckStub tail-call the runtime through TailCallRuntime, i.e.
\* JumpToRuntime, which requests CEntryStub(1); the kind with a custom cache
\* pops a handle scope, which calls the runtime through CallRuntime, i.e.
\* requests a RuntimeStub.
Majors == {"RecordWrite", "CEntry", "Runtime", "ApiGetterEntry", "StackCheck"}

Stubs ==
    [major : {"RecordWrite", "Runtime"}, minor : 0..MaxMinor]
        \cup {[major |-> "CEntry", minor |-> 1],
              [major |-> "ApiGetterEntry", minor |-> 0]}

\* CodeStub::has_custom_cache(): false unless the stub kind overrides it.
has_custom_cache(stub) == stub.major = "ApiGetterEntry"

\* CodeStub::GetKey(): the major tag together with the minor key.
GetKey(stub) == <<stub.major, stub.minor>>

\* CEntryStub ces(1) of MacroAssembler::JumpToRuntime.
CEntryStub1 == [major |-> "CEntry", minor |-> 1]

\* RuntimeStub stub(function_id, num_arguments) of MacroAssembler::CallRuntime:
\* the minor key holds the function id above the sixteen bits of the number
\* of arguments, so the stubs of one function with different numbers of
\* arguments have different keys.
RuntimeStub(id, num_arguments) ==
    [major |-> "Runtime", minor |-> id * (2 ^ 16) + num_arguments]

\* StackCheckStub stack_stub of the loops of the code generator.
StackCheckStub == [major |-> "StackCheck", minor |-> 0]

\* The stubs that a stub's generator requests, in order, each through
\* MacroAssembler::CallStub / TailCallStub / JumpToRuntime (all of which call
\* GetCode of the requested stub while the outer stub is being generated).
Generate(stub) ==
    CASE stub.major = "RecordWrite"    -> <<>>
      [] stub.major = "CEntry"         -> <<>>
      [] stub.major = "Runtime"        -> <<CEntryStub1>>
      [] stub.major = "ApiGetterEntry" -> <<RuntimeStub(0, 0)>>
      [] stub.major = "StackCheck"     -> <<CEntryStub1>>

\* NumberDictionary::FindEntry / ValueAt on the shared dictionary.
FindEntry(dict, key) == key \in DOMAIN dict

\* NumberDictionary::AtNumberPut: the dictionary with key mapped to value.
AtNumberPut(dict, key, value) ==
    [k \in (DOMAIN dict) \cup {key} |-> IF k = key THEN value ELSE dict[k]]

\* CodeStub::GetCustomCache: the slot's object, found only when it is set.
GetCustomCache(stub, st) ==
    [found |-> st.custom_cache[stub.major] # 0, code |-> st.custom_cache[stub.major]]

\* CodeStub::SetCustomCache.
SetCustomCache(stub, st, value) ==
    [st EXCEPT !.custom_cache[stub.major] = value]

\* A plausible defect: the lookup never hits.
FindCodeInCacheNeverHits(stub, st) == [found |-> FALSE, code |-> 0]

\* A plausible defect: the dictionary is searched by the major tag alone.
FindCodeInCacheByMajor(stub, st) ==
    IF has_custom_cache(stub) THEN GetCustomCache(stub, st)
    ELSE IF \E k \in DOMAIN st.code_stubs : k[1] = stub.major
         THEN [found |-> TRUE,
               code |-> st.code_stubs[CHOOSE k \in DOMAIN st.code_stubs : k[1] = stub.major]]
         ELSE [found |-> FALSE, code |-> 0]

\* CodeStub::FindCodeInCache.
FindCodeInCache(stub, st) ==
    IF has_custom_cache(stub) THEN GetCustomCache(stub, st)
    ELSE IF FindEntry(st.code_stubs, GetKey(stub))
         THEN [found |-> TRUE, code |-> st.code_stubs[GetKey(stub)]]
         ELSE [found |-> FALSE, code |-> 0]

\* Factory::NewCode / Heap::CreateCode followed by RecordCodeGeneration: a
\* fresh code object that carries the major key of the stub it was made for.
NewCode(stub, st) ==
    [st EXCEPT !.heap = Append(@, [major |-> stub.major, key |-> GetKey(stub)])]

RECURSIVE GetCodeOp(_, _)
RECURSIVE RunGenerator(_, _)

\* The body of Generate(masm): every requested stub is obtained with GetCode.
RunGenerator(requests, st) ==
    IF requests = <<>> THEN st
    ELSE RunGenerator(Tail(requests), GetCodeOp(Head(requests), st).st)

\* CodeStub::GenerateCode: count the generation, then run the generator.
GenerateCode(stub, st) ==
    RunGenerator(Generate(stub), [st EXCEPT !.counter = @ + 1])

\* A plausible defect: the new object is registered in the shared dictionary
\* whatever the stub kind.
GetCodeOpRegistersInDictionary(stub, st) ==
    LET f == FindCodeInCache(stub, st) IN
    IF f.found THEN [st |-> st, failure |-> FALSE, code |-> f.code]
    ELSE LET g == NewCode(stub, GenerateCode(stub, st))
             new_object == Len(g.heap)
             c == IF has_custom_cache(stub) THEN SetCustomCache(stub, g, new_object) ELSE g
             r == [c EXCEPT !.code_stubs = AtNumberPut(@, GetKey(stub), new_object)]
         IN [st |-> r, failure |-> FALSE, code |-> new_object]

\* A plausible defect: the dictionary read before the generator ran is the
\* one updated and stored back.
GetCodeOpUpdatingStaleDictionary(stub, st) ==
    LET f == FindCodeInCache(stub, st) IN
    IF f.found THEN [st |-> st, failure |-> FALSE, code |-> f.code]
    ELSE LET g == NewCode(stub, GenerateCode(stub, st))
             new_object == Len(g.heap)
             r == IF has_custom_cache(stub)
                  THEN SetCustomCache(stub, g, new_object)
                  ELSE [g EXCEPT !.code_stubs = AtNumberPut(st.code_stubs, GetKey(stub), new_object)]
         IN [st |-> r, failure |-> FALSE, code |-> new_object]

\* CodeStub::GetCode, as a function of the cache state: the state after the
\* call and the object returned.
GetCodeOp(stub, st) ==
    LET f == FindCodeInCache(stub, st) IN
    IF f.found THEN [st |-> st, failure |-> FALSE, code |-> f.code]
    ELSE LET g == NewCode(stub, GenerateCode(stub, st))
             new_object == Len(g.heap)
             r == IF has_custom_cache(stub)
                  THEN SetCustomCache(stub, g, new_object)
                  ELSE [g EXCEPT !.code_stubs = AtNumberPut(@, GetKey(stub), new_object)]
         IN [st |-> r, failure |-> FALSE, code |-> new_object]

\* A plausible defect: the result of Heap::CreateCode is not tested for failure.
TryGetCodeOpUncheckedCreate(stub, st, create_fails, put_fails) ==
    LET f == FindCodeInCache(stub, st) IN
    IF f.found THEN [st |-> st, failure |-> FALSE, code |-> f.code]
    ELSE LET g == NewCode(stub, GenerateCode(stub, st))
             new_code == Len(g.heap)
         IN IF has_custom_cache(stub)
            THEN [st |-> SetCustomCache(stub, g, new_code), failure |-> FALSE, code |-> new_code]
            ELSE IF put_fails
                 THEN [st |-> g, failure |-> FALSE, code |-> new_code]
                 ELSE [st |-> [g EXCEPT !.code_stubs = AtNumberPut(@, GetKey(stub), new_code)],
                       failure |-> FALSE, code |-> new_code]

\* A plausible defect: the stub is registered before the code object exists.
TryGetCodeOpEarlyPut(stub, st, create_fails, put_fails) ==
    LET f == FindCodeInCache(stub, st) IN
    IF f.found THEN [st |-> st, failure |-> FALSE, code |-> f.code]
    ELSE LET gen == GenerateCode(stub, st)
             new_code == Len(gen.heap) + 1
             reg == IF has_custom_cache(stub) THEN SetCustomCache(stub, gen, new_code)
                    ELSE IF put_fails THEN gen
                    ELSE [gen EXCEPT !.code_stubs = AtNumberPut(@, GetKey(stub), new_code)]
         IN IF create_fails THEN [st |-> reg, failure |-> TRUE, code |-> 0]
            ELSE [st |-> NewCode(stub, reg), failure |-> FALSE, code |-> new_code]

\* CodeStub::TryGetCode.  create_fails: Heap::CreateCode returns a failure;
\* put_fails: NumberDictionary::AtNumberPut returns a failure.
TryGetCodeOp(stub, st, create_fails, put_fails) ==
    LET f == FindCodeInCache(stub, st) IN
    IF f.found THEN [st |-> st, failure |-> FALSE, code |-> f.code]
    ELSE LET gen == GenerateCode(stub, st) IN
         IF create_fails THEN [st |-> gen, failure |-> TRUE, code |-> 0]
         ELSE LET g == NewCode(stub, gen)
                  new_code == Len(g.heap)
              IN IF has_custom_cache(stub)
                 THEN [st |-> SetCustomCache(stub, g, new_code), failure |-> FALSE, code |-> new_code]
                 ELSE IF put_fails
                      THEN [st |-> g, failure |-> FALSE, code |-> new_code]
                      ELSE [st |-> [g EXCEPT !.code_stubs = AtNumberPut(@, GetKey(stub), new_code)],
                            failure |-> FALSE, code |-> new_code]

\* The cache state as one record, and its parts.
CacheState ==
    [code_stubs |-> code_stubs, custom_cache |-> custom_cache,
     heap |-> heap, counter |-> counter]

NoCall ==
    [op |-> "none", stub |-> [major |-> "CEntry", minor |-> 1],
     failure |-> FALSE, code |-> 0, create_fails |-> FALSE, put_fails |-> FALSE,
     generated |-> 0, repeat |-> FALSE,
     pre_code_stubs |-> <<>>, pre_custom_cache |-> [m \in {"ApiGetterEntry"} |-> 0],
     pre_heap |-> 0]

\* The stub cache of a fresh process: nothing generated, nothing cached.
CacheEmpty ==
    /\ code_stubs = <<>>
    /\ custom_cache = [m \in {"ApiGetterEntry"} |-> 0]
    /\ heap = <<>>
    /\ counter = 0
    /\ last = NoCall
    /\ got = <<>>
    /\ given = {}

\* No function is being compiled or run.
NoFunction ==
    /\ prog = <<>>
    /\ code = <<>>
    /\ bound = <<>>
    /\ jumps = <<>>
    /\ logical = <<>>
    /\ status = "none"
    /\ pc = 0
    /\ stack = <<>>
    /\ eax = 0
    /\ esi = 0
    /\ handler = 0
    /\ frame = <<>>
    /\ trace = <<>>
    /\ function_scope = <<>>
    /\ targets = <<>>
    /\ made = <<>>

\* No function has been given to the syntax checker.
NoCheck == gate = <<>>

\* No RecordWriteStub has been constructed.
NoRecordWriteStub == record_write = <<>>

\* No stub is being generated step by step.
NoStubGeneration == masm = <<>>

InitStub == CacheEmpty /\ NoFunction /\ NoCheck /\ NoRecordWriteStub /\ NoStubGeneration

\* The effect of a finished top-level call on the state.  last keeps the call,
\* its result, the number of GenerateCode invocations it made, whether GetCode
\* had returned an object for the same key before, and the cache as it was
\* when the call was made.
Returned(op, stub, r, create_fails, put_fails) ==
    /\ code_stubs' = r.st.code_stubs
    /\ custom_cache' = r.st.custom_cache
    /\ heap' = r.st.heap
    /\ counter' = r.st.counter
    /\ last' = [op |-> op, stub |-> stub, failure |-> r.failure, code |-> r.code,
                create_fails |-> create_fails, put_fails |-> put_fails,
                generated |-> r.st.counter - counter,
                repeat |-> GetKey(stub) \in DOMAIN got,
                pre_code_stubs |-> code_stubs, pre_custom_cache |-> custom_cache,
                pre_heap |-> Len(heap)]
    /\ got' = IF op = "GetCode" /\ ~has_custom_cache(stub)
                 /\ GetKey(stub) \notin DOMAIN got
              THEN AtNumberPut(got, GetKey(stub), r.code)
              ELSE got
    /\ given' = IF r.failure THEN given ELSE given \cup {<<GetKey(stub), r.code>>}
    /\ UNCHANGED <<cgVars, gateVars, keyVars, masmVars>>

\* Calls that generate code are made only while the model's bound on code
\* objects and generations is not exhausted; cache hits are always possible.
MayCall(stub) ==
    \/ FindCodeInCache(stub, CacheState).found
    \/ (Len(heap) < MaxCode /\ counter < MaxCode)

\* A caller asks for the code of stub with the non-fallible GetCode.
GetCode(stub) ==
    /\ MayCall(stub)
    /\ Returned("GetCode", stub, GetCodeOp(stub, CacheState), FALSE, FALSE)

\* A caller asks for the code of stub with the fallible TryGetCode.
TryGetCode(stub, create_fails, put_fails) ==
    /\ MayCall(stub)
    /\ Returned("TryGetCode", stub,
                TryGetCodeOp(stub, CacheState, create_fails, put_fails),
                create_fails, put_fails)

NextStub ==
    \/ \E stub \in Stubs : GetCode(stub)
    \/ \E stub \in Stubs, create_fails \in BOOLEAN, put_fails \in BOOLEAN :
           TryGetCode(stub, create_fails, put_fails)

SpecStub == InitStub /\ [][NextStub]_vars

(***************************************************************************)
(* Claims about the code stub cache                                        *)
(***************************************************************************)

\* C1: for a stub without a custom cache, once GetCode has returned an object
\* for a key, every later GetCode with an equal key returns that very object
\* and generates nothing (GenerateCode is not invoked, Counters::code_stubs is
\* unchanged, no object is allocated), whatever calls were made in between.
C1_RepeatedGetCodeHits ==
    (last.op = "GetCode" /\ ~has_custom_cache(last.stub) /\ last.repeat)
        => /\ last.code = got[GetKey(last.stub)]
           /\ ~last.failure
           /\ last.generated = 0
           /\ Len(heap) = last.pre_heap

\* A repeated GetCode that hit, after calls for other keys were served.
C1_Witness ==
    /\ last.op = "GetCode" /\ ~has_custom_cache(last.stub) /\ last.repeat
    /\ last.code = got[GetKey(last.stub)]
    /\ Cardinality(DOMAIN code_stubs) >= 2
    /\ \E p \in given : p[1] # GetKey(last.stub) /\ p[2] > last.code

\* C2: distinct StubKeys never share a code object: the shared dictionary is
\* injective, every entry was generated for the key it is stored under, and no
\* object was ever handed out for two different keys.
C2_DistinctKeysDistinctObjects ==
    /\ \A k1, k2 \in DOMAIN code_stubs :
           k1 # k2 => code_stubs[k1] # code_stubs[k2]
    /\ \A k \in DOMAIN code_stubs :
           code_stubs[k] \in 1..Len(heap) /\ heap[code_stubs[k]].key = k
    /\ \A p, q \in given : p[1] # q[1] => p[2] # q[2]
    /\ \A p \in given : heap[p[2]].key = p[1]

\* Two stubs of one major tag with different minor keys are both registered
\* and both were handed out.
C2_Witness ==
    \E k1, k2 \in DOMAIN code_stubs :
        /\ k1[1] = k2[1] /\ k1[2] # k2[2]
        /\ <<k1, code_stubs[k1]>> \in given
        /\ <<k2, code_stubs[k2]>> \in given

\* The stubs a generator requests, directly or through the generators of the
\* stubs it requests.
RECURSIVE Requested(_)
Requested(stub) ==
    UNION {{Generate(stub)[i]} \cup Requested(Generate(stub)[i]) :
               i \in 1..Len(Generate(stub))}

\* C3 as stated: whenever TryGetCode returns the failure marker the shared
\* dictionary and the custom cache slots are exactly as before the call.
C3_Original ==
    (last.op = "TryGetCode" /\ last.failure)
        => /\ code_stubs = last.pre_code_stubs
           /\ custom_cache = last.pre_custom_cache

\* What the code does keep when TryGetCode returns the failure marker:
\* nothing has been registered for the requested stub and no existing entry
\* was replaced or removed; the only entries added are those of the stubs
\* that the generator requested with GetCode, and a generator that requests
\* no stub leaves the cache exactly as it was.
C3_FailureRegistersNothing ==
    (last.op = "TryGetCode" /\ last.failure)
        => /\ \A k \in DOMAIN last.pre_code_stubs :
                  k \in DOMAIN code_stubs /\ code_stubs[k] = last.pre_code_stubs[k]
           /\ \A k \in (DOMAIN code_stubs) \ (DOMAIN last.pre_code_stubs) :
                  /\ k # GetKey(last.stub)
                  /\ \E s \in Requested(last.stub) : GetKey(s) = k
           /\ \A m \in DOMAIN custom_cache :
                  custom_cache[m] # last.pre_custom_cache[m]
                      => /\ m # last.stub.major
                         /\ \E s \in Requested(last.stub) : s.major = m
           /\ Requested(last.stub) = {}
                  => /\ code_stubs = last.pre_code_stubs
                     /\ custom_cache = last.pre_custom_cache

\* A failed TryGetCode whose generator had a requested stub registered.
C3_Witness ==
    /\ last.op = "TryGetCode" /\ last.failure
    /\ code_stubs # last.pre_code_stubs
    /\ GetKey(last.stub) \notin DOMAIN code_stubs

\* C4 as stated: on a miss, a failure to create the code object and a failure
\* of the dictionary update (AtNumberPut) both make TryGetCode return the
\* failure marker.
C4_Original ==
    (/\ last.op = "TryGetCode"
     /\ last.generated > 0
     /\ \/ last.create_fails
        \/ (last.put_fails /\ ~has_custom_cache(last.stub)))
        => last.failure

\* C4 (amended): on a miss, a failure to create the code object makes
\* TryGetCode return the failure marker and no code object; a failure of the
\* dictionary update does not: TryGetCode then returns the new code object,
\* generated for this stub, and the stub's key stays unregistered.
C4_CreateFailureReported ==
    /\ (last.op = "TryGetCode" /\ last.generated > 0 /\ last.create_fails)
           => (last.failure /\ last.code = 0)
    /\ (/\ last.op = "TryGetCode" /\ last.generated > 0
        /\ ~last.create_fails /\ last.put_fails /\ ~has_custom_cache(last.stub))
           => /\ ~last.failure
              /\ last.code = Len(heap)
              /\ heap[last.code].key = GetKey(last.stub)
              /\ GetKey(last.stub) \notin DOMAIN code_stubs
    /\ (last.op = "TryGetCode" /\ last.failure)
           => (last.generated > 0 /\ last.create_fails)

\* A TryGetCode whose dictionary update failed and that returned its object.
C4_Witness ==
    /\ last.op = "TryGetCode" /\ last.generated > 0
    /\ ~last.create_fails /\ last.put_fails /\ ~has_custom_cache(last.stub)
    /\ ~last.failure /\ last.code = Len(heap)

\* The last call was GetCode or TryGetCode of a stub kind with a custom cache.
CustomCacheCall ==
    last.op \in {"GetCode", "TryGetCode"} /\ has_custom_cache(last.stub)

\* C19 as stated: a GetCode or TryGetCode of a stub kind with a custom cache
\* leaves the shared dictionary as it was, whether it hits or misses.
C19_Original ==
    CustomCacheCall => code_stubs = last.pre_code_stubs

\* C19 (amended): for a stub kind with a custom cache the call looks its own
\* code object up in the custom slot only and stores it there only: it hits
\* exactly when the slot is set and then changes nothing; on a miss the new
\* object goes to the slot and the stub's key is never entered in the shared
\* dictionary.  The dictionary does change on a miss, but only by the entries
\* of the stubs that the generator requested with GetCode; no existing entry
\* is replaced or removed.
C19_CustomCacheBypassesDictionary ==
    CustomCacheCall =>
        /\ GetKey(last.stub) \notin DOMAIN code_stubs
        /\ (last.generated = 0) <=> (last.pre_custom_cache[last.stub.major] # 0)
        /\ last.generated = 0 =>
               /\ ~last.failure
               /\ last.code = last.pre_custom_cache[last.stub.major]
               /\ code_stubs = last.pre_code_stubs
               /\ custom_cache = last.pre_custom_cache
               /\ Len(heap) = last.pre_heap
        /\ (last.generated > 0 /\ ~last.failure) =>
               /\ custom_cache[last.stub.major] = last.code
               /\ last.code = Len(heap)
               /\ heap[last.code].key = GetKey(last.stub)
        /\ \A k \in DOMAIN last.pre_code_stubs :
               k \in DOMAIN code_stubs /\ code_stubs[k] = last.pre_code_stubs[k]
        /\ \A k \in (DOMAIN code_stubs) \ (DOMAIN last.pre_code_stubs) :
               \E s \in Requested(last.stub) : GetKey(s) = k

\* A miss of the stub kind with a custom cache has filled the slot while its
\* generator had other stubs registered in the shared dictionary.
C19_Witness ==
    /\ CustomCacheCall /\ last.generated > 0 /\ ~last.failure
    /\ custom_cache[last.stub.major] = last.code
    /\ code_stubs # last.pre_code_stubs

\* The last call missed the cache and its generator requested other stubs.
NestedGeneration ==
    /\ last.op \in {"GetCode", "TryGetCode"}
    /\ last.generated > 0
    /\ Requested(last.stub) # {}

\* The key is registered in the shared dictionary, for an object made for it.
Registered(key) ==
    /\ key \in DOMAIN code_stubs
    /\ code_stubs[key] \in 1..Len(heap)
    /\ heap[code_stubs[key]].key = key

\* C27 as stated: if the generator of stub A requests stub B during GetCode(A)
\* or TryGetCode(A), then after the outer call returns both keys are
\* registered in the shared dictionary, each mapped to its own object.
C27_Original ==
    NestedGeneration =>
        /\ Registered(GetKey(last.stub))
        /\ \A b \in Requested(last.stub) :
               Registered(GetKey(b)) /\ code_stubs[GetKey(b)] # code_stubs[GetKey(last.stub)]

\* The outer call registers its stub in the shared dictionary.
OuterRegisters ==
    /\ ~has_custom_cache(last.stub)
    /\ ~last.failure
    /\ ~(last.op = "TryGetCode" /\ last.put_fails)

\* C27 (amended): if the generator of stub A requests stub B during GetCode(A)
\* or TryGetCode(A), then after the outer call returns B's key is registered
\* in the shared dictionary, mapped to an object made for B (the one it had
\* before the call, if any): the outer call neither overwrites nor loses the
\* entry added by the nested call, whether or not it fails.  A's key is
\* registered as well, mapped to its own, newer object, exactly when the
\* outer call registers at all: A has no custom cache, and for TryGetCode
\* neither the creation of the code object nor the dictionary update failed.
C27_NestedRegistrationKept ==
    NestedGeneration =>
        /\ \A b \in Requested(last.stub) :
               /\ Registered(GetKey(b))
               /\ GetKey(b) \in DOMAIN last.pre_code_stubs
                      => code_stubs[GetKey(b)] = last.pre_code_stubs[GetKey(b)]
               /\ GetKey(b) \notin DOMAIN last.pre_code_stubs
                      => code_stubs[GetKey(b)] > last.pre_heap
        /\ OuterRegisters <=> GetKey(last.stub) \in DOMAIN code_stubs
        /\ OuterRegisters =>
               /\ Registered(GetKey(last.stub))
               /\ code_stubs[GetKey(last.stub)] = last.code
               /\ last.code = Len(heap)
               /\ \A b \in Requested(last.stub) :
                      code_stubs[GetKey(b)] < code_stubs[GetKey(last.stub)]

\* A TryGetCode of a RuntimeStub generated the stub and, nested in it, the
\* CEntryStub its generator requests; both are registered.
C27_Witness ==
    /\ NestedGeneration /\ OuterRegisters
    /\ last.op = "TryGetCode" /\ last.generated = 2
    /\ Registered(GetKey(last.stub)) /\ Registered(GetKey(CEntryStub1))
    /\ code_stubs[GetKey(CEntryStub1)] = last.pre_heap + 1
    /\ code_stubs[GetKey(last.stub)] = last.pre_heap + 2

(***************************************************************************)
(* Part II.  The code generator                                            *)
(*                                                                         *)
(* II.1  The syntax tree.  A node is a record: t is the node type, id      *)
(* identifies the node, v is the node's number (the value of a literal,    *)
(* the variable of an assignment or catch, the id of the target statement  *)
(* of a break or continue), op is the token of an operation, and kids are  *)
(* the sub-nodes in source order.                                          *)
(***************************************************************************)

Node(t, id, v, op, kids) == [t |-> t, id |-> id, v |-> v, op |-> op, kids |-> kids]

\* A sub-node that is absent (a NULL pointer in the tree).
NullNode == Node("NULL", 0, 0, "", <<>>)

Literal(id, v) == Node("Literal", id, v, "", <<>>)
Assignment(id, var, value) == Node("Assignment", id, var, "ASSIGN", <<value>>)
BinaryOperation(id, op, left, right) == Node("BinaryOperation", id, 0, op, <<left, right>>)
Throw(id, exception) == Node("Throw", id, 0, "", <<exception>>)
Block(id, statements) == Node("Block", id, 0, "", statements)
ExpressionStatement(id, expression) == Node("ExpressionStatement", id, 0, "", <<expression>>)
EmptyStatement(id) == Node("EmptyStatement", id, 0, "", <<>>)
IfStatement(id, condition, then_statement, else_statement) ==
    Node("IfStatement", id, 0, "", <<condition, then_statement, else_statement>>)
ContinueStatement(id, target) == Node("ContinueStatement", id, target, "", <<>>)
BreakStatement(id, target) == Node("BreakStatement", id, target, "", <<>>)
ReturnStatement(id, expression) == Node("ReturnStatement", id, 0, "", <<expression>>)
DoWhileStatement(id, cond, body) == Node("DoWhileStatement", id, 0, "", <<cond, body>>)
WhileStatement(id, cond, body) == Node("WhileStatement", id, 0, "", <<cond, body>>)
ForStatement(id, init, cond, next, body) ==
    Node("ForStatement", id, 0, "", <<init, cond, next, body>>)
TryCatchStatement(id, catch_var, try_block, catch_block) ==
    Node("TryCatchStatement", id, catch_var, "", <<try_block, catch_block>>)
TryFinallyStatement(id, try_block, finally_block) ==
    Node("TryFinallyStatement", id, 0, "", <<try_block, finally_block>>)

(***************************************************************************)
(* The nodes of declarations, and those the code generator has no visitor  *)
(* for in this file.  The op of a VariableProxy is the kind of its         *)
(* variable; a variable that is a parameter rewritten to a property of the *)
(* arguments object has that property's object and key as sub-nodes.       *)
(***************************************************************************)

VariableProxy(id, var) == Node("VariableProxy", id, 0, var, <<>>)
RewrittenParameter(id, obj, key) == Node("VariableProxy", id, 0, "arguments_parameter", <<obj, key>>)
Property(id, obj, key) == Node("Property", id, 0, "", <<obj, key>>)
AssignmentTo(id, op, target, value) == Node("Assignment", id, 0, op, <<target, value>>)
Call(id, fun, args) == Node("Call", id, 0, "", <<fun>> \o args)
CallNew(id, fun, args) == Node("CallNew", id, 0, "", <<fun>> \o args)
CallRuntime(id, name, args) == Node("CallRuntime", id, 0, name, args)
UnaryOperation(id, op, expression) == Node("UnaryOperation", id, 0, op, <<expression>>)
CountOperation(id, expression) == Node("CountOperation", id, 0, "INC", <<expression>>)
CompareOperation(id, left, right) == Node("CompareOperation", id, 0, "EQ", <<left, right>>)
Conditional(id, condition, then_expression, else_expression) ==
    Node("Conditional", id, 0, "", <<condition, then_expression, else_expression>>)
ArrayLiteral(id, values) == Node("ArrayLiteral", id, 0, "", values)
CatchExtensionObject(id, key, value) == Node("CatchExtensionObject", id, 0, "", <<key, value>>)
Leaf(t, id) == Node(t, id, 0, "", <<>>)
WithEnterStatement(id, expression) == Node("WithEnterStatement", id, 0, "", <<expression>>)
Declaration(id, proxy, fun) == Node("Declaration", id, 0, "", <<proxy, fun>>)

\* Variable::is_global, Variable::slot()->type() ("NULL" without a slot),
\* Variable::mode, Variable::is_possibly_eval and Variable::is_this of the
\* kinds of variable; a "global_lookup" variable is a global variable with a
\* LOOKUP slot.
is_global(var) == var \in {"global", "global_const", "global_lookup", "eval"}
slot_type(var) ==
    CASE var \in {"parameter", "this"} -> "PARAMETER"
      [] var \in {"local", "local_const"} -> "LOCAL"
      [] var = "context" -> "CONTEXT"
      [] var \in {"lookup", "global_lookup"} -> "LOOKUP"
      [] OTHER -> "NULL"
mode(var) == IF var \in {"global_const", "local_const"} THEN "CONST" ELSE "VAR"
is_possibly_eval(var) == var = "eval"
is_this(var) == var = "this"

\* A function literal whose compilation recurses v levels deep.
DeclaredFunction(id, v) == Node("FunctionLiteral", id, v, "", <<>>)

\* expr->AsVariableProxy()->AsVariable(): the variable of a proxy that is not
\* rewritten to a property, "" for NULL.  An assignment of Part II, which has
\* no target node, assigns to a stack-allocated local.
AsVariable(expr) ==
    IF expr.t = "VariableProxy" /\ expr.kids = <<>> THEN expr.op ELSE ""

\* expr->AsProperty(): the property, or the property a proxy's variable is
\* rewritten to; NullNode for NULL.
AsProperty(expr) ==
    IF expr.t = "Property" THEN expr
    ELSE IF expr.t = "VariableProxy" /\ expr.kids # <<>>
         THEN Property(expr.id, expr.kids[1], expr.kids[2])
         ELSE NullNode

\* Assignment::target() and Assignment::value().
TargetOf(expr) ==
    IF Len(expr.kids) = 2 THEN expr.kids[1] ELSE VariableProxy(expr.id, "local")
ValueOf(expr) == expr.kids[Len(expr.kids)]

\* A literal that is a property name, Literal::IsPropertyName; the plain
\* literals of the model are numbers, which are not.
PropertyName(id, v) == Node("Literal", id, v, "name", <<>>)
IsPropertyName(expr) == expr.t = "Literal" /\ expr.op = "name"

\* Assignment::is_compound: the operation is neither ASSIGN nor an
\* initialization.
is_compound(expr) == expr.op \notin {"ASSIGN", "INIT_VAR", "INIT_CONST"}

\* WithEnterStatement::is_catch_block: the statement enters the context of
\* a catch block.
CatchEnterStatement(id, expression) ==
    Node("WithEnterStatement", id, 0, "is_catch_block", <<expression>>)
is_catch_block(stmt) == stmt.op = "is_catch_block"

\* An array or object literal whose values are all known at compile time
\* (MaterializedLiteral::is_simple), and CompileTimeValue::IsCompileTimeValue.
SimpleArrayLiteral(id, values) == Node("ArrayLiteral", id, 0, "is_simple", values)
CompileTimeValue_IsCompileTimeValue(expr) ==
    expr.t \in {"ArrayLiteral", "ObjectLiteral"} /\ expr.op = "is_simple"

\* An object literal and its properties: ObjectLiteral::Property has a kind,
\* a key and a value, and is not a node of its own (it has no id and is
\* never visited); ObjectLiteral::Property::IsCompileTimeValue.
ObjectLiteral(id, properties) == Node("ObjectLiteral", id, 0, "", properties)
SimpleObjectLiteral(id, properties) == Node("ObjectLiteral", id, 0, "is_simple", properties)
ObjectLiteralProperty(kind, key, value) ==
    Node("ObjectLiteral::Property", 0, 0, kind, <<key, value>>)
IsCompileTimeValue(property) ==
    \/ property.op = "CONSTANT"
    \/ property.op = "MATERIALIZED_LITERAL"
           /\ CompileTimeValue_IsCompileTimeValue(property.kids[2])

(***************************************************************************)
(* II.2  The state of one FullCodeGenerator and the assembler primitives.  *)
(* cg.code is the instruction buffer; a Label is a number, cg.bound[l] is  *)
(* the position it is bound to (0 while unbound); cg.nesting_stack_ holds  *)
(* the NestedStatement records, innermost first.  cg.depth is the number of *)
(* Visit calls in progress and cg.stack_limit, when cg.stack_limited, the   *)
(* number of them the stack has room for; cg.overflow_in names the place    *)
(* where the overflow was detected; cg.globals is the array DeclareGlobals  *)
(* was called with.                                                         *)
(***************************************************************************)

\* Factory::undefined_value(), as a number no literal of the model has.
Undefined == -1

\* The size of a machine word, in bytes.
kPointerSize == 4

\* StackHandlerConstants::kSize: a handler record is four words.
StackHandlerConstants_kSize == 4 * kPointerSize

\* Finally::kFinallyStackElementCount: the cooked return address and the
\* saved result register.
kFinallyStackElementCount == 2

(***************************************************************************)
(* The macro assembler (src/src/ia32/macro-assembler-ia32.cc): the entry   *)
(* points that request stubs.  An assembler is a record of its two flags,  *)
(* the instructions emitted (buffer), a log of the assertions evaluated    *)
(* and of the code objects obtained, the value returned by the operation   *)
(* performed last, and the stub cache (st) that its requests work on.      *)
(* The code generator emits through the assembler that MakeCode            *)
(* constructs; Part VI follows the assembler that GetCode constructs for   *)
(* the generator of a stub.                                                *)
(***************************************************************************)

\* Runtime::FunctionForId: the stub id of a runtime function and the number
\* of arguments it expects (-1: any number).
kAbort == [stub_id |-> 0, nargs |-> 2]

NoResult == [failure |-> FALSE, code |-> 0]

NoOperation ==
    [op |-> "none", stub |-> CEntryStub1, nargs |-> 0, num_arguments |-> 0,
     emitted |-> <<>>, from |-> 1, returned |-> NoResult,
     pre_st |-> <<>>, pre_allow |-> TRUE]

\* MacroAssembler::MacroAssembler: generating_stub_(false),
\* allow_stub_calls_(true), for a stub with the given AllowsStubCalls(), in a
\* build with or without DEBUG and a run with or without --debug-code.  The
\* stub requests of the assembler work on the stub cache of the process.
NewMacroAssembler(allows_stub_calls, debug, debug_code) ==
    [AllowsStubCalls |-> allows_stub_calls, DEBUG |-> debug, FLAG_debug_code |-> debug_code,
     generating_stub_ |-> FALSE, allow_stub_calls_ |-> TRUE,
     buffer |-> <<>>, log |-> <<>>, fatal |-> FALSE, phase |-> "constructed",
     result |-> NoResult, last |-> NoOperation, ops |-> 0,
     st |-> CacheState]

\* One instruction appended to the assembler's buffer.
Asm(m, op, a) == [m EXCEPT !.buffer = Append(@, [op |-> op, a |-> a])]

Logged(m, op, allowed, failure, obj) ==
    [m EXCEPT !.log = Append(@, [op |-> op, allowed |-> allowed,
                                 failure |-> failure, code |-> obj])]

\* ASSERT(allow_stub_calls()): the log keeps the value of the flag; a debug
\* build stops the process when it is false, another build does not test it.
AssertAllowStubCalls(m) ==
    [Logged(m, "ASSERT", m.allow_stub_calls_, FALSE, 0)
        EXCEPT !.fatal = m.DEBUG /\ ~m.allow_stub_calls_]

\* The instruction emitted for a code object obtained with GetCode.
WithCode(m, r, instruction) ==
    [Asm(Logged(m, "GetCode", TRUE, FALSE, r.code), instruction, r.code)
        EXCEPT !.st = r.st, !.result = NoResult]

\* A plausible defect: the instruction is emitted whatever TryGetCode returned.
WithCodeOrFailureAlwaysEmitting(m, r, instruction) ==
    [Asm(Logged(m, "TryGetCode", TRUE, r.failure, r.code), instruction, r.code)
        EXCEPT !.st = r.st, !.result = [failure |-> r.failure, code |-> r.code]]

\* The result of TryGetCode is returned, and the instruction is emitted
\* if (!result->IsFailure()).
WithCodeOrFailure(m, r, instruction) ==
    [(IF ~r.failure
      THEN Asm(Logged(m, "TryGetCode", TRUE, r.failure, r.code), instruction, r.code)
      ELSE Logged(m, "TryGetCode", TRUE, r.failure, r.code))
        EXCEPT !.st = r.st, !.result = [failure |-> r.failure, code |-> r.code]]

\* MacroAssembler::CallStub.
CallStub(m, stub) ==
    IF AssertAllowStubCalls(m).fatal THEN AssertAllowStubCalls(m)
    ELSE CHOOSE called \in {WithCode(AssertAllowStubCalls(m), r, "call") :
                               r \in {GetCodeOp(stub, m.st)}} : TRUE

\* MacroAssembler::TryCallStub.
TryCallStub(m, stub, create_fails, put_fails) ==
    IF AssertAllowStubCalls(m).fatal THEN AssertAllowStubCalls(m)
    ELSE CHOOSE called \in {WithCodeOrFailure(AssertAllowStubCalls(m), r, "call") :
                               r \in {TryGetCodeOp(stub, m.st, create_fails, put_fails)}} : TRUE

\* MacroAssembler::TailCallStub.
TailCallStub(m, stub) ==
    IF AssertAllowStubCalls(m).fatal THEN AssertAllowStubCalls(m)
    ELSE CHOOSE called \in {WithCode(AssertAllowStubCalls(m), r, "jmp") :
                               r \in {GetCodeOp(stub, m.st)}} : TRUE

\* MacroAssembler::TryTailCallStub.
TryTailCallStub(m, stub, create_fails, put_fails) ==
    IF AssertAllowStubCalls(m).fatal THEN AssertAllowStubCalls(m)
    ELSE CHOOSE called \in {WithCodeOrFailure(AssertAllowStubCalls(m), r, "jmp") :
                               r \in {TryGetCodeOp(stub, m.st, create_fails, put_fails)}} : TRUE

\* MacroAssembler::Set(Register dst, const Immediate& x).
Set(m, dst, x) == IF x = 0 THEN Asm(m, "xor_" \o dst, dst) ELSE Asm(m, "mov_" \o dst, x)

\* MacroAssembler::JumpToRuntime: the entry point goes to ebx and the code
\* jumps to the C entry stub; no assertion is evaluated.
JumpToRuntime(m, ext) ==
    CHOOSE jumped \in {WithCode(Asm(m, "mov_ebx", ext), r, "jmp") :
                           r \in {GetCodeOp(CEntryStub1, m.st)}} : TRUE

\* MacroAssembler::TailCallRuntime.
TailCallRuntime(m, ext, num_arguments, result_size) ==
    JumpToRuntime(Set(m, "eax", num_arguments), ext)

\* MacroAssembler::IllegalOperation.
IllegalOperation(m, num_arguments) ==
    Asm(IF num_arguments > 0 THEN Asm(m, "add_esp", num_arguments * kPointerSize) ELSE m,
        "mov_eax", Undefined)

\* if (f->nargs >= 0 && f->nargs != num_arguments)
ArgumentCountMismatch(f, num_arguments) == f.nargs >= 0 /\ f.nargs # num_arguments

\* MacroAssembler::CallRuntime(Runtime::Function* f, int num_arguments).
MacroAssembler_CallRuntime(m, f, num_arguments) ==
    IF ArgumentCountMismatch(f, num_arguments)
    THEN [IllegalOperation(m, num_arguments) EXCEPT !.result = NoResult]
    ELSE CallStub(m, RuntimeStub(f.stub_id, num_arguments))

\* Runtime::FunctionForId for the runtime functions the code generator
\* calls: each has a stub id of its own and a fixed number of arguments.
Runtime_FunctionForId(id) ==
    CASE id = "kPushContext"                -> [stub_id |-> 2, nargs |-> 1]
      [] id = "kPushCatchContext"           -> [stub_id |-> 3, nargs |-> 1]
      [] id = "kReThrow"                    -> [stub_id |-> 4, nargs |-> 1]
      [] id = "kDebugBreak"                 -> [stub_id |-> 5, nargs |-> 0]
      [] id = "kCreateCatchExtensionObject" -> [stub_id |-> 6, nargs |-> 2]
      [] id = "kThrow"                      -> [stub_id |-> 7, nargs |-> 1]

\* MacroAssembler::CallRuntime(Runtime::FunctionId id, int num_arguments).
CallRuntime_FunctionId(m, id, num_arguments) ==
    MacroAssembler_CallRuntime(m, Runtime_FunctionForId(id), num_arguments)

\* MacroAssembler::TryCallRuntime(Runtime::Function* f, int num_arguments):
\* on a mismatch some non-failure object is returned, Heap::undefined_value().
TryCallRuntime(m, f, num_arguments, create_fails, put_fails) ==
    IF ArgumentCountMismatch(f, num_arguments)
    THEN [IllegalOperation(m, num_arguments)
              EXCEPT !.result = [failure |-> FALSE, code |-> Undefined]]
    ELSE TryCallStub(m, RuntimeStub(f.stub_id, num_arguments), create_fails, put_fails)

\* A plausible defect: Abort leaves the restriction on stub calls in force.
AbortWithoutEnablingStubCalls(m) ==
    Asm(MacroAssembler_CallRuntime(
            Asm(Asm(Asm(Logged(m, "Abort", m.allow_stub_calls_, FALSE, 0),
                        "push", "eax"), "push", "p0"), "push", "p1 - p0"),
            kAbort, 2),
        "int3", 0)

\* MacroAssembler::Abort: set_allow_stub_calls(true), the three pushes, the
\* call of Runtime::kAbort with two arguments, int3.
Abort(m) ==
    Asm(MacroAssembler_CallRuntime(
            Asm(Asm(Asm([Logged(m, "Abort", m.allow_stub_calls_, FALSE, 0)
                            EXCEPT !.allow_stub_calls_ = TRUE],
                        "push", "eax"), "push", "p0"), "push", "p1 - p0"),
            kAbort, 2),
        "int3", 0)

\* MacroAssembler::Check: j(cc, &L, taken); Abort(msg); bind(&L).
MacroAssembler_Check(m) == Abort(Asm(m, "j", "L"))

\* MacroAssembler::Assert: if (FLAG_debug_code) Check(cc, msg).
MacroAssembler_Assert(m) == IF m.FLAG_debug_code THEN MacroAssembler_Check(m) ELSE m

NewCodeGenerator ==
    [code |-> <<>>, bound |-> <<>>, nesting_stack_ |-> <<>>,
     context_ |-> "kUninitialized", location_ |-> "kAccumulator",
     true_label_ |-> 0, false_label_ |-> 0, loop_depth_ |-> 0,
     jumps |-> <<>>, logical |-> <<>>, targets |-> <<>>,
     stack_overflow_ |-> FALSE, overflow_in |-> "", depth |-> 0,
     stack_limited |-> FALSE, stack_limit |-> 0,
     declared |-> FALSE, globals |-> <<>>, visits |-> <<>>,
     masm_ |-> NewMacroAssembler(TRUE, FALSE, FALSE)]

\* One assembler instruction appended to the buffer.
Emit(cg, op, a, b) == [cg EXCEPT !.code = Append(@, [op |-> op, a |-> a, b |-> b])]

\* __ CallStub(&stack_stub): masm_ obtains the code of the stub and emits the
\* call; code keeps the call under the name of the stub called.
masm_CallStub(cg, stub) ==
    CHOOSE called \in
        {[Emit(c, "CallStub_" \o stub.major, 0, 0) EXCEPT !.masm_ = CallStub(@, stub)] :
             c \in {cg}} : TRUE

\* __ CallRuntime(Runtime::id, num_arguments) for the node b: masm_ obtains
\* the code of the RuntimeStub and emits the call, or emits IllegalOperation
\* when the function takes another number of arguments; code keeps the call
\* under the name of the function called.
masm_CallRuntime(cg, id, num_arguments, b) ==
    CHOOSE called \in
        {[(IF ArgumentCountMismatch(Runtime_FunctionForId(id), num_arguments)
           THEN Emit(c, "IllegalOperation", num_arguments, b)
           ELSE Emit(c, "CallRuntime_" \o id, num_arguments, b))
              EXCEPT !.masm_ = CallRuntime_FunctionId(@, id, num_arguments)] :
             c \in {cg}} : TRUE

\* Declares n fresh labels; they are Len(cg.bound) + 1 .. Len(cg.bound) + n.
Labels(cg, n) == [cg EXCEPT !.bound = @ \o [i \in 1..n |-> 0]]

\* __ bind(&label): the label denotes the next instruction emitted.
Bind(cg, label) == [cg EXCEPT !.bound[label] = Len(cg.code) + 1]

\* MacroAssembler::Drop: nothing is emitted for zero elements.
Drop(cg, stack_elements) ==
    IF stack_elements > 0 THEN Emit(cg, "add_esp", stack_elements, 0) ELSE cg

\* The record kept of the labels of one compiled block, loop or try
\* statement (at is the position of a try statement's handler code, the
\* return address of its call of try_handler_setup, and body the position
\* of its PushTryHandler), and of one PopTryHandler emitted for a try
\* statement (at is its position).
Targets(kind, stmt, body, stack_limit_hit, stack_check_success, break_target,
        continue_target, entry, at) ==
    [kind |-> kind, stmt |-> stmt, body |-> body, stack_limit_hit |-> stack_limit_hit,
     stack_check_success |-> stack_check_success, break_target |-> break_target,
     continue_target |-> continue_target, entry |-> entry, at |-> at]
Note(cg, record) == [cg EXCEPT !.targets = Append(@, record)]
PopTryHandler(cg, stmt) ==
    Note(Emit(cg, "PopTryHandler", 0, 0),
         Targets("PopTryHandler", stmt, 0, 0, 0, 0, 0, 0, Len(cg.code) + 1))

\* NestedStatement constructor and destructor: link into / unlink from the
\* code generator's nesting stack.
PushNested(cg, scope) == [cg EXCEPT !.nesting_stack_ = <<scope>> \o @]
PopNested(cg) == [cg EXCEPT !.nesting_stack_ = Tail(@)]

\* NestedStatement::outer().
outer(current) == Tail(current)

NestedStatement(kind, stmt, break_target, continue_target, entry) ==
    [kind |-> kind, stmt |-> stmt, break_target |-> break_target,
     continue_target |-> continue_target, entry |-> entry]

\* Breakable::IsBreakTarget / Iteration::IsContinueTarget; false for the
\* other kinds of nested statement.
IsBreakTarget(scope, target) ==
    scope.kind \in {"Breakable", "Iteration"} /\ scope.stmt = target
IsContinueTarget(scope, target) ==
    scope.kind = "Iteration" /\ scope.stmt = target

(***************************************************************************)
(* II.3  Expression contexts                                               *)
(***************************************************************************)

RECURSIVE Visit(_, _)

\* FullCodeGenerator::VisitForEffect / VisitForValue / VisitForControl /
\* VisitForValueControl / VisitForControlValue: visit the expression under
\* the given context, location and labels and restore the saved ones.
VisitUnder(expr, cg, context, where, if_true, if_false) ==
    LET r == Visit(expr, [cg EXCEPT !.context_ = context, !.location_ = where,
                                    !.true_label_ = if_true, !.false_label_ = if_false])
    IN [r EXCEPT !.context_ = cg.context_, !.location_ = cg.location_,
                 !.true_label_ = cg.true_label_, !.false_label_ = cg.false_label_]

VisitForEffect(expr, cg) ==
    VisitUnder(expr, cg, "kEffect", cg.location_, cg.true_label_, cg.false_label_)
VisitForValue(expr, where, cg) ==
    VisitUnder(expr, cg, "kValue", where, cg.true_label_, cg.false_label_)
VisitForControl(expr, if_true, if_false, cg) ==
    VisitUnder(expr, cg, "kTest", cg.location_, if_true, if_false)
VisitForValueControl(expr, where, if_true, if_false, cg) ==
    VisitUnder(expr, cg, "kValueTest", where, if_true, if_false)
VisitForControlValue(expr, where, if_true, if_false, cg) ==
    VisitUnder(expr, cg, "kTestValue", where, if_true, if_false)

\* FullCodeGenerator::DoTest: branch on the truth of the result register.  In
\* a value/test (test/value) context with the stack as location the value is
\* already on the stack and is discarded on the false (true) branch.
DoTest(cg) ==
    CASE cg.context_ = "kTest" ->
             Emit(Emit(cg, "jtrue", cg.true_label_, 0), "jmp", cg.false_label_, 0)
      [] cg.context_ = "kValueTest" /\ cg.location_ = "kStack" ->
             Emit(Drop(Emit(cg, "jtrue", cg.true_label_, 0), 1), "jmp", cg.false_label_, 0)
      [] cg.context_ = "kTestValue" /\ cg.location_ = "kStack" ->
             Emit(Drop(Emit(cg, "jfalse", cg.false_label_, 0), 1), "jmp", cg.true_label_, 0)
      [] OTHER ->
             Emit(Emit(cg, "jtrue", cg.true_label_, 0), "jmp", cg.false_label_, 0)

\* FullCodeGenerator::Apply(context, result_register()): deliver the value in
\* the result register as the context requires.
ApplyRegister(cg) ==
    CASE cg.context_ = "kEffect" -> cg
      [] cg.context_ = "kValue" ->
             IF cg.location_ = "kStack" THEN Emit(cg, "push_eax", 0, 0) ELSE cg
      [] cg.context_ = "kTest" -> DoTest(cg)
      [] cg.context_ \in {"kValueTest", "kTestValue"} ->
             DoTest(IF cg.location_ = "kStack" THEN Emit(cg, "push_eax", 0, 0) ELSE cg)
      [] OTHER -> Emit(cg, "UNREACHABLE", 0, 0)

\* FullCodeGenerator::VisitLiteral: Apply(context_, expr).
VisitLiteral(expr, cg) ==
    CASE cg.context_ = "kEffect" -> cg
      [] cg.context_ = "kValue" /\ cg.location_ = "kStack" ->
             Emit(cg, "push_lit", expr.v, expr.id)
      [] cg.context_ = "kUninitialized" -> Emit(cg, "UNREACHABLE", 0, 0)
      [] OTHER -> ApplyRegister(Emit(cg, "mov_lit", expr.v, expr.id))

\* The kind of the left-hand side of an assignment, and the number of the
\* variable assigned to.
LhsKind(expr) ==
    IF AsProperty(TargetOf(expr)).t = "NULL" THEN "VARIABLE"
    ELSE IF IsPropertyName(AsProperty(TargetOf(expr)).kids[2]) THEN "NAMED_PROPERTY"
    ELSE "KEYED_PROPERTY"
VariableOf(expr) == IF Len(expr.kids) = 2 THEN expr.kids[1].v ELSE expr.v

\* The platform's emitters, each one instruction of the model.
\* EmitVariableLoad in a value context with the stack as location pushes the
\* variable; the property loads leave the value in the result register;
\* EmitBinaryOp pops the left operand and leaves the result in the result
\* register; EmitVariableAssignment and the property assignments store the
\* result register (the latter pop the receiver, and the key) and apply the
\* context to it.
EmitVariableLoad(var, cg) == Emit(cg, "EmitVariableLoad", var, 0)
EmitNamedPropertyLoad(prop, cg) == Emit(cg, "EmitNamedPropertyLoad", 0, prop.id)
EmitKeyedPropertyLoad(prop, cg) == Emit(cg, "EmitKeyedPropertyLoad", 0, prop.id)
EmitBinaryOp(expr, cg) == Emit(cg, "EmitBinaryOp", 0, expr.id)
EmitVariableAssignment(var, expr, cg) == ApplyRegister(Emit(cg, "store_var", var, expr.id))
EmitNamedPropertyAssignment(expr, cg) ==
    ApplyRegister(Emit(cg, "EmitNamedPropertyAssignment", 0, expr.id))
EmitKeyedPropertyAssignment(expr, cg) ==
    ApplyRegister(Emit(cg, "EmitKeyedPropertyAssignment", 0, expr.id))

\* FullCodeGenerator::VisitAssignment: the object (and the key) of a property
\* on the left-hand side go to the stack; for a compound assignment the
\* value of the left-hand side is pushed; the right-hand side goes to the
\* accumulator; a compound assignment applies its operator; the value is
\* stored.
VisitAssignment(expr, cg) ==
    LET prop == AsProperty(TargetOf(expr))
        assign_type == LhsKind(expr)
        lhs == CASE assign_type = "VARIABLE" -> cg
                 [] assign_type = "NAMED_PROPERTY" ->
                        VisitForValue(prop.kids[1], "kStack", cg)
                 [] assign_type = "KEYED_PROPERTY" ->
                        VisitForValue(prop.kids[2], "kStack",
                                      VisitForValue(prop.kids[1], "kStack", cg))
        loaded == IF ~is_compound(expr) THEN lhs
                  ELSE CASE assign_type = "VARIABLE" -> EmitVariableLoad(VariableOf(expr), lhs)
                         [] assign_type = "NAMED_PROPERTY" ->
                                Emit(EmitNamedPropertyLoad(prop, lhs), "push_eax", 0, 0)
                         [] assign_type = "KEYED_PROPERTY" ->
                                Emit(EmitKeyedPropertyLoad(prop, lhs), "push_eax", 0, 0)
        rhs == VisitForValue(ValueOf(expr), "kAccumulator", loaded)
        value == IF is_compound(expr) THEN EmitBinaryOp(expr, rhs) ELSE rhs
    IN CASE assign_type = "VARIABLE" -> EmitVariableAssignment(VariableOf(expr), expr, value)
         [] assign_type = "NAMED_PROPERTY" -> EmitNamedPropertyAssignment(expr, value)
         [] assign_type = "KEYED_PROPERTY" -> EmitKeyedPropertyAssignment(expr, value)

\* FullCodeGenerator::VisitCatchExtensionObject.
VisitCatchExtensionObject(expr, cg) ==
    ApplyRegister(masm_CallRuntime(VisitForValue(expr.kids[2], "kStack",
                                                 VisitForValue(expr.kids[1], "kStack", cg)),
                                   "kCreateCatchExtensionObject", 2, expr.id))

\* FullCodeGenerator::VisitConditional.
VisitConditional(expr, cg) ==
    LET c0 == Labels(cg, 3)
        true_case == Len(cg.bound) + 1
        false_case == Len(cg.bound) + 2
        done == Len(cg.bound) + 3
        falls_through == cg.context_ \in {"kEffect", "kValue"}
        c1 == Bind(VisitForControl(expr.kids[1], true_case, false_case, c0), true_case)
        c2 == Visit(expr.kids[2], c1)
        c3 == Bind(IF falls_through THEN Emit(c2, "jmp", done, 0) ELSE c2, false_case)
        c4 == Visit(expr.kids[3], c3)
    IN IF falls_through THEN Bind(c4, done) ELSE c4

\* FullCodeGenerator::VisitThrow.
VisitThrow(expr, cg) ==
    masm_CallRuntime(VisitForValue(expr.kids[1], "kStack", cg), "kThrow", 1, expr.id)

\* One compiled logical operation, for the record: the context in force when
\* the operation was reached and when its right operand was visited.
LogicalRecord(expr, cg, at_right, eval_right, done) ==
    [id |-> expr.id, op |-> expr.op,
     context_ |-> cg.context_, location_ |-> cg.location_,
     true_label_ |-> cg.true_label_, false_label_ |-> cg.false_label_,
     right_context |-> at_right.context_, right_location |-> at_right.location_,
     right_true |-> at_right.true_label_, right_false |-> at_right.false_label_,
     eval_right |-> eval_right, done |-> done,
     right_from |-> Len(at_right.code) + 1]

\* FullCodeGenerator::EmitLogicalOperation, the switch for Token::OR: the
\* context the left operand is visited in.
LeftOfOr(left, cg, eval_right, done) ==
    CASE cg.context_ = "kEffect" ->
             VisitForControl(left, done, eval_right, cg)
      [] cg.context_ = "kValue" ->
             VisitForValueControl(left, cg.location_, done, eval_right, cg)
      [] cg.context_ = "kTest" ->
             VisitForControl(left, cg.true_label_, eval_right, cg)
      [] cg.context_ = "kValueTest" ->
             VisitForValueControl(left, cg.location_, cg.true_label_, eval_right, cg)
      [] cg.context_ = "kTestValue" ->
             VisitForControl(left, cg.true_label_, eval_right, cg)
      [] OTHER -> Emit(cg, "UNREACHABLE", 0, 0)

\* The left operand of && visited as that of || is.
LeftOfAndAsOfOr(left, cg, eval_right, done) == LeftOfOr(left, cg, eval_right, done)

\* FullCodeGenerator::EmitLogicalOperation, the switch for Token::AND.
LeftOfAnd(left, cg, eval_right, done) ==
    CASE cg.context_ = "kEffect" ->
             VisitForControl(left, eval_right, done, cg)
      [] cg.context_ = "kValue" ->
             VisitForControlValue(left, cg.location_, eval_right, done, cg)
      [] cg.context_ = "kTest" ->
             VisitForControl(left, eval_right, cg.false_label_, cg)
      [] cg.context_ = "kValueTest" ->
             VisitForControl(left, eval_right, cg.false_label_, cg)
      [] cg.context_ = "kTestValue" ->
             VisitForControlValue(left, cg.location_, eval_right, cg.false_label_, cg)
      [] OTHER -> Emit(cg, "UNREACHABLE", 0, 0)

\* The right operand visited for its value whatever the context is.
EmitLogicalOperationRightForValue(expr, cg) ==
    LET c0 == Labels(cg, 2)
        eval_right == Len(cg.bound) + 1
        done == Len(cg.bound) + 2
        l == IF expr.op = "OR"
             THEN LeftOfOr(expr.kids[1], c0, eval_right, done)
             ELSE LeftOfAnd(expr.kids[1], c0, eval_right, done)
        at_right == [Bind(l, eval_right) EXCEPT !.context_ = "kValue"]
        r == Visit(expr.kids[2], at_right)
        d == [Bind(r, done) EXCEPT !.context_ = cg.context_]
    IN [d EXCEPT !.logical = Append(@, LogicalRecord(expr, cg, at_right, eval_right, done))]

\* FullCodeGenerator::EmitLogicalOperation.
EmitLogicalOperation(expr, cg) ==
    LET c0 == Labels(cg, 2)
        eval_right == Len(cg.bound) + 1
        done == Len(cg.bound) + 2
        l == IF expr.op = "OR"
             THEN LeftOfOr(expr.kids[1], c0, eval_right, done)
             ELSE LeftOfAnd(expr.kids[1], c0, eval_right, done)
        at_right == Bind(l, eval_right)
        r == Visit(expr.kids[2], at_right)
        d == Bind(r, done)
    IN [d EXCEPT !.logical = Append(@, LogicalRecord(expr, cg, at_right, eval_right, done))]

\* FullCodeGenerator::VisitBinaryOperation: the logical operations are the
\* binary operations of the model.
VisitBinaryOperation(expr, cg) == EmitLogicalOperation(expr, cg)

(***************************************************************************)
(* II.4  Statements                                                        *)
(***************************************************************************)

\* StackHandler::TRY_CATCH_HANDLER and StackHandler::TRY_FINALLY_HANDLER.
TRY_CATCH_HANDLER == 1
TRY_FINALLY_HANDLER == 2

\* AstVisitor::VisitStatements: each statement's code is complete before the
\* next statement is visited.
RECURSIVE VisitStatements(_, _)
VisitStatements(statements, cg) ==
    IF statements = <<>> THEN cg
    ELSE LET visited == Visit(Head(statements), cg)
         IN IF Len(visited.code) < 0 THEN visited
            ELSE VisitStatements(Tail(statements), visited)

\* A plausible defect: the block's Breakable stays on the nesting stack.
VisitBlockLeavingBreakable(stmt, cg) ==
    LET c0 == Labels(cg, 1)
        break_target == Len(cg.bound) + 1
        nested == PushNested(c0, NestedStatement("Breakable", stmt.id, break_target, 0, 0))
    IN Note(Bind(VisitStatements(stmt.kids, nested), break_target),
            Targets("Block", stmt.id, 0, 0, 0, break_target, 0, 0, 0))

\* FullCodeGenerator::VisitBlock.
VisitBlock(stmt, cg) ==
    LET c0 == Labels(cg, 1)
        break_target == Len(cg.bound) + 1
        nested == PushNested(c0, NestedStatement("Breakable", stmt.id, break_target, 0, 0))
    IN Note(PopNested(Bind(VisitStatements(stmt.kids, nested), break_target)),
            Targets("Block", stmt.id, 0, 0, 0, break_target, 0, 0, 0))

\* FullCodeGenerator::VisitExpressionStatement.
VisitExpressionStatement(stmt, cg) == VisitForEffect(stmt.kids[1], cg)

\* FullCodeGenerator::VisitEmptyStatement.
VisitEmptyStatement(stmt, cg) == cg

\* StandardFrameConstants::kContextOffset and Context::PREVIOUS_INDEX.
StandardFrameConstants_kContextOffset == -1 * kPointerSize
Context_PREVIOUS_INDEX == 3

\* FullCodeGenerator::VisitWithEnterStatement: the runtime call returns the
\* new context in the context and the result registers.
VisitWithEnterStatement(stmt, cg) ==
    Emit(masm_CallRuntime(VisitForValue(stmt.kids[1], "kStack", cg),
                          IF is_catch_block(stmt) THEN "kPushCatchContext"
                          ELSE "kPushContext", 1, stmt.id),
         "StoreToFrameField", StandardFrameConstants_kContextOffset, stmt.id)

\* FullCodeGenerator::VisitWithExitStatement.
VisitWithExitStatement(stmt, cg) ==
    Emit(Emit(cg, "LoadContextField", Context_PREVIOUS_INDEX, stmt.id),
         "StoreToFrameField", StandardFrameConstants_kContextOffset, stmt.id)

\* The build has debugger support.
ENABLE_DEBUGGER_SUPPORT == TRUE

\* FullCodeGenerator::VisitDebuggerStatement.
VisitDebuggerStatement(stmt, cg) ==
    IF ENABLE_DEBUGGER_SUPPORT THEN masm_CallRuntime(cg, "kDebugBreak", 0, stmt.id) ELSE cg

\* FullCodeGenerator::VisitIfStatement.
VisitIfStatement(stmt, cg) ==
    LET c0 == Labels(cg, 3)
        then_part == Len(cg.bound) + 1
        else_part == Len(cg.bound) + 2
        done == Len(cg.bound) + 3
        c1 == Bind(VisitForControl(stmt.kids[1], then_part, else_part, c0), then_part)
        c2 == Emit(Visit(stmt.kids[2], c1), "jmp", done, 0)
        c3 == Visit(stmt.kids[3], Bind(c2, else_part))
    IN Bind(c3, done)

\* TryFinally::Exit without the call of the finally block.
TryFinallyExitWithoutCall(scope, stack_depth, cg) ==
    [cg |-> PopTryHandler(Drop(cg, stack_depth), scope.stmt), depth |-> 0]

\* A plausible defect: TryFinally::Exit returns the depth it has dropped.
TryFinallyExitReturningDepth(scope, stack_depth, cg) ==
    [cg |-> Emit(PopTryHandler(Drop(cg, stack_depth), scope.stmt), "call", scope.entry, 0),
     depth |-> stack_depth]

\* TryFinally::Exit.
TryFinallyExit(scope, stack_depth, cg) ==
    [cg |-> Emit(PopTryHandler(Drop(cg, stack_depth), scope.stmt), "call", scope.entry, 0),
     depth |-> 0]

\* A TryCatch::Exit that leaves the handler on the chain.
TryCatchExitWithoutPop(scope, stack_depth, cg) ==
    [cg |-> Drop(cg, stack_depth), depth |-> 0]

\* TryCatch::Exit.
TryCatchExit(scope, stack_depth, cg) ==
    [cg |-> PopTryHandler(Drop(cg, stack_depth), scope.stmt), depth |-> 0]

\* Finally::Exit: the finally block's two stack elements are to be dropped.
FinallyExit(scope, stack_depth, cg) ==
    [cg |-> cg, depth |-> stack_depth + kFinallyStackElementCount]

\* NestedStatement::Exit, the default: nothing to clean up.
DefaultExit(scope, stack_depth, cg) == [cg |-> cg, depth |-> stack_depth]

\* The virtual call current->Exit(stack_depth).
Exit(scope, stack_depth, cg) ==
    CASE scope.kind = "TryFinally" -> TryFinallyExit(scope, stack_depth, cg)
      [] scope.kind = "TryCatch"   -> TryCatchExit(scope, stack_depth, cg)
      [] scope.kind = "Finally"    -> FinallyExit(scope, stack_depth, cg)
      [] OTHER                     -> DefaultExit(scope, stack_depth, cg)

\* The walk of VisitBreakStatement / VisitContinueStatement /
\* VisitReturnStatement over the nesting stack: while current is not the
\* target (for a return: while current is not NULL), call Exit on it and go
\* to current->outer().  w.exits lists the Exit calls made, in order, each
\* with the length of the code buffer when it was made.
RECURSIVE ExitWalk(_, _, _)
ExitWalkToNearest(kind, target, w) ==
    IF w.current = <<>> THEN w
    ELSE IF kind = "break" /\ Head(w.current).kind \in {"Breakable", "Iteration"} THEN w
    ELSE IF kind = "continue" /\ Head(w.current).kind = "Iteration" THEN w
    ELSE LET e == Exit(Head(w.current), w.stack_depth, w.cg)
         IN ExitWalk(kind, target,
                     [cg |-> e.cg, stack_depth |-> e.depth,
                      current |-> outer(w.current),
                      exits |-> Append(w.exits,
                                       [kind |-> Head(w.current).kind,
                                        stmt |-> Head(w.current).stmt,
                                        at |-> Len(w.cg.code)])])

ExitWalk(kind, target, w) ==
    IF w.current = <<>> THEN w
    ELSE IF kind = "break" /\ IsBreakTarget(Head(w.current), target) THEN w
    ELSE IF kind = "continue" /\ IsContinueTarget(Head(w.current), target) THEN w
    ELSE LET e == Exit(Head(w.current), w.stack_depth, w.cg)
         IN ExitWalk(kind, target,
                     [cg |-> e.cg, stack_depth |-> e.depth,
                      current |-> outer(w.current),
                      exits |-> Append(w.exits,
                                       [kind |-> Head(w.current).kind,
                                        stmt |-> Head(w.current).stmt,
                                        at |-> Len(w.cg.code)])])

StartWalk(cg) ==
    [cg |-> cg, stack_depth |-> 0, current |-> cg.nesting_stack_, exits |-> <<>>]

\* The record kept of one compiled break, continue or return: where its code
\* starts, where the final Drop was emitted, where its last instruction (the
\* jump or the return sequence) is, and the scope and label it resolved to.
JumpRecord(stmt, kind, from, w, after, label) ==
    [stmt |-> stmt.id, kind |-> kind, target |-> stmt.v,
     start |-> from, drop_at |-> Len(w.cg.code), end |-> Len(after.code),
     exits |-> w.exits, final_drop |-> w.stack_depth,
     scope |-> IF w.current = <<>> THEN 0 ELSE Head(w.current).stmt,
     label |-> label]

\* A continue that jumps to the break target of the loop it resolved to.
VisitContinueStatementToBreakTarget(stmt, cg) ==
    LET w == ExitWalk("continue", stmt.v, StartWalk(cg))
        label == IF w.current = <<>> THEN 0 ELSE Head(w.current).break_target
        after == Emit(Drop(w.cg, w.stack_depth), "jmp", label, 0)
    IN [after EXCEPT !.jumps =
            Append(@, JumpRecord(stmt, "continue", Len(cg.code) + 1, w, after, label))]

\* FullCodeGenerator::VisitContinueStatement.
VisitContinueStatement(stmt, cg) ==
    LET w == ExitWalk("continue", stmt.v, StartWalk(cg))
        label == IF w.current = <<>> THEN 0 ELSE Head(w.current).continue_target
        after == Emit(Drop(w.cg, w.stack_depth), "jmp", label, 0)
    IN [after EXCEPT !.jumps =
            Append(@, JumpRecord(stmt, "continue", Len(cg.code) + 1, w, after, label))]

\* FullCodeGenerator::VisitBreakStatement.
VisitBreakStatement(stmt, cg) ==
    LET w == ExitWalk("break", stmt.v, StartWalk(cg))
        label == IF w.current = <<>> THEN 0 ELSE Head(w.current).break_target
        after == Emit(Drop(w.cg, w.stack_depth), "jmp", label, 0)
    IN [after EXCEPT !.jumps =
            Append(@, JumpRecord(stmt, "break", Len(cg.code) + 1, w, after, label))]

\* A return that exits the nested statements before it evaluates its
\* expression.
VisitReturnStatementExitsFirst(stmt, cg) ==
    LET w == ExitWalk("return", 0, StartWalk(cg))
        c0 == VisitForValue(stmt.kids[1], "kAccumulator", Drop(w.cg, w.stack_depth))
        after == Emit(c0, "Return", 0, 0)
    IN [after EXCEPT !.jumps =
            Append(@, JumpRecord(stmt, "return", Len(cg.code) + 1, w, after, 0))]

\* FullCodeGenerator::VisitReturnStatement; EmitReturnSequence is the single
\* instruction "Return".
VisitReturnStatement(stmt, cg) ==
    LET c0 == VisitForValue(stmt.kids[1], "kAccumulator", cg)
        w == ExitWalk("return", 0, StartWalk(c0))
        after == Emit(Drop(w.cg, w.stack_depth), "Return", 0, 0)
    IN [after EXCEPT !.jumps =
            Append(@, JumpRecord(stmt, "return", Len(c0.code) + 1, w, after, 0))]

\* The tail of a loop without the jump back to stack_check_success.
StackLimitHitFallsThrough(cg, stack_limit_hit, stack_check_success) ==
    masm_CallStub(Bind(cg, stack_limit_hit), StackCheckStub)

\* The tail shared by the three loops: the code reached when the stack limit
\* is hit calls the StackCheckStub and goes back to stack_check_success.
StackLimitHit(cg, stack_limit_hit, stack_check_success) ==
    Emit(masm_CallStub(Bind(cg, stack_limit_hit), StackCheckStub),
         "jmp", stack_check_success, 0)

\* FullCodeGenerator::VisitDoWhileStatement.
VisitDoWhileStatement(stmt, cg) ==
    LET c0 == Labels(cg, 5)
        body == Len(cg.bound) + 1
        stack_limit_hit == Len(cg.bound) + 2
        stack_check_success == Len(cg.bound) + 3
        break_target == Len(cg.bound) + 4
        continue_target == Len(cg.bound) + 5
        c1 == [PushNested(c0, NestedStatement("Iteration", stmt.id, break_target,
                                              continue_target, 0))
                   EXCEPT !.loop_depth_ = @ + 1]
        c2 == Visit(stmt.kids[2], Bind(c1, body))
        c3 == Bind(Emit(c2, "StackLimitCheck", stack_limit_hit, stmt.id), stack_check_success)
        c4 == VisitForControl(stmt.kids[1], body, break_target, Bind(c3, continue_target))
        c5 == Bind(StackLimitHit(c4, stack_limit_hit, stack_check_success), break_target)
    IN Note(PopNested([c5 EXCEPT !.loop_depth_ = @ - 1]),
            Targets("DoWhile", stmt.id, body, stack_limit_hit, stack_check_success,
                    break_target, continue_target, 0, 0))

\* A while statement whose continue target is bound after the stack-limit
\* check instead of before it.
VisitWhileStatementContinuePastCheck(stmt, cg) ==
    LET c0 == Labels(cg, 5)
        body == Len(cg.bound) + 1
        stack_limit_hit == Len(cg.bound) + 2
        stack_check_success == Len(cg.bound) + 3
        break_target == Len(cg.bound) + 4
        continue_target == Len(cg.bound) + 5
        c1 == [PushNested(c0, NestedStatement("Iteration", stmt.id, break_target,
                                              continue_target, 0))
                   EXCEPT !.loop_depth_ = @ + 1]
        c2 == Visit(stmt.kids[2], Bind(Emit(c1, "jmp", continue_target, 0), body))
        c3 == Bind(Bind(Emit(c2, "StackLimitCheck", stack_limit_hit, stmt.id),
                        stack_check_success), continue_target)
        c4 == VisitForControl(stmt.kids[1], body, break_target, c3)
        c5 == Bind(StackLimitHit(c4, stack_limit_hit, stack_check_success), break_target)
    IN Note(PopNested([c5 EXCEPT !.loop_depth_ = @ - 1]),
            Targets("While", stmt.id, body, stack_limit_hit, stack_check_success,
                    break_target, continue_target, 0, 0))

\* FullCodeGenerator::VisitWhileStatement.
VisitWhileStatement(stmt, cg) ==
    LET c0 == Labels(cg, 5)
        body == Len(cg.bound) + 1
        stack_limit_hit == Len(cg.bound) + 2
        stack_check_success == Len(cg.bound) + 3
        break_target == Len(cg.bound) + 4
        continue_target == Len(cg.bound) + 5
        c1 == [PushNested(c0, NestedStatement("Iteration", stmt.id, break_target,
                                              continue_target, 0))
                   EXCEPT !.loop_depth_ = @ + 1]
        c2 == Visit(stmt.kids[2], Bind(Emit(c1, "jmp", continue_target, 0), body))
        c3 == Bind(Emit(Bind(c2, continue_target), "StackLimitCheck", stack_limit_hit, stmt.id),
                   stack_check_success)
        c4 == VisitForControl(stmt.kids[1], body, break_target, c3)
        c5 == Bind(StackLimitHit(c4, stack_limit_hit, stack_check_success), break_target)
    IN Note(PopNested([c5 EXCEPT !.loop_depth_ = @ - 1]),
            Targets("While", stmt.id, body, stack_limit_hit, stack_check_success,
                    break_target, continue_target, 0, 0))

\* FullCodeGenerator::VisitForStatement.
VisitForStatement(stmt, cg) ==
    LET c0 == Labels(cg, 6)
        test == Len(cg.bound) + 1
        body == Len(cg.bound) + 2
        stack_limit_hit == Len(cg.bound) + 3
        stack_check_success == Len(cg.bound) + 4
        break_target == Len(cg.bound) + 5
        continue_target == Len(cg.bound) + 6
        c1 == PushNested(c0, NestedStatement("Iteration", stmt.id, break_target,
                                             continue_target, 0))
        c2 == IF stmt.kids[1].t # "NULL" THEN Visit(stmt.kids[1], c1) ELSE c1
        c3 == Emit([c2 EXCEPT !.loop_depth_ = @ + 1], "jmp", test, 0)
        c4 == Bind(Visit(stmt.kids[4], Bind(c3, body)), continue_target)
        c5 == IF stmt.kids[3].t # "NULL" THEN Visit(stmt.kids[3], c4) ELSE c4
        c6 == Bind(Emit(Bind(c5, test), "StackLimitCheck", stack_limit_hit, stmt.id),
                   stack_check_success)
        c7 == IF stmt.kids[2].t # "NULL"
              THEN VisitForControl(stmt.kids[2], body, break_target, c6)
              ELSE Emit(c6, "jmp", body, 0)
        c8 == Bind(StackLimitHit(c7, stack_limit_hit, stack_check_success), break_target)
    IN Note(PopNested([c8 EXCEPT !.loop_depth_ = @ - 1]),
            Targets("For", stmt.id, body, stack_limit_hit, stack_check_success,
                    break_target, continue_target, 0, 0))

\* A plausible defect: the catch block is compiled before the exception is
\* stored in the catch variable.
VisitTryCatchStatementStoringLate(stmt, cg) ==
    LET c0 == Labels(cg, 3)
        try_handler_setup == Len(cg.bound) + 1
        catch_entry == Len(cg.bound) + 2
        done == Len(cg.bound) + 3
        c1 == Emit(c0, "call", try_handler_setup, 0)
        c2 == Emit(Emit(Visit(stmt.kids[2], c1), "StoreToFrameField", stmt.v, stmt.id),
                   "jmp", done, 0)
        c3 == PushNested(Bind(c2, try_handler_setup),
                         NestedStatement("TryCatch", stmt.id, 0, 0, catch_entry))
        c4 == Visit(stmt.kids[1], Emit(c3, "PushTryHandler", TRY_CATCH_HANDLER, stmt.id))
        c5 == PopNested(PopTryHandler(c4, stmt.id))
    IN Note(Bind(c5, done), Targets("TryCatch", stmt.id, Len(c2.code) + 1, 0, 0, 0, 0, catch_entry,
                    Len(cg.code) + 2))

\* FullCodeGenerator::VisitTryCatchStatement.
VisitTryCatchStatement(stmt, cg) ==
    LET c0 == Labels(cg, 3)
        try_handler_setup == Len(cg.bound) + 1
        catch_entry == Len(cg.bound) + 2
        done == Len(cg.bound) + 3
        c1 == Emit(Emit(c0, "call", try_handler_setup, 0), "StoreToFrameField", stmt.v, stmt.id)
        c2 == Emit(Visit(stmt.kids[2], c1), "jmp", done, 0)
        c3 == PushNested(Bind(c2, try_handler_setup),
                         NestedStatement("TryCatch", stmt.id, 0, 0, catch_entry))
        c4 == Visit(stmt.kids[1], Emit(c3, "PushTryHandler", TRY_CATCH_HANDLER, stmt.id))
        c5 == PopNested(PopTryHandler(c4, stmt.id))
    IN Note(Bind(c5, done), Targets("TryCatch", stmt.id, Len(c2.code) + 1, 0, 0, 0, 0, catch_entry,
                    Len(cg.code) + 2))

\* A try/finally whose try block, when it completes, jumps to the finally
\* block instead of calling it.
VisitTryFinallyStatementJumpsIn(stmt, cg) ==
    LET c0 == Labels(cg, 2)
        finally_entry == Len(cg.bound) + 1
        try_handler_setup == Len(cg.bound) + 2
        c1 == Emit(c0, "call", try_handler_setup, 0)
        c2 == masm_CallRuntime(Emit(Emit(c1, "call", finally_entry, 0), "push_eax", 0, 0),
                               "kReThrow", 1, stmt.id)
        c3 == PushNested(Bind(c2, finally_entry),
                         NestedStatement("Finally", stmt.id, 0, 0, 0))
        c4 == Visit(stmt.kids[2], Emit(c3, "EnterFinallyBlock", 0, stmt.id))
        c5 == PopNested(Emit(c4, "ExitFinallyBlock", 0, stmt.id))
        c6 == PushNested(Bind(c5, try_handler_setup),
                         NestedStatement("TryFinally", stmt.id, 0, 0, finally_entry))
        c7 == Visit(stmt.kids[1], Emit(c6, "PushTryHandler", TRY_FINALLY_HANDLER, stmt.id))
        c8 == PopNested(PopTryHandler(c7, stmt.id))
    IN Note(Emit(c8, "jmp", finally_entry, 0),
            Targets("TryFinally", stmt.id, Len(c5.code) + 1, 0, 0, 0, 0, finally_entry,
                    Len(cg.code) + 2))

\* FullCodeGenerator::VisitTryFinallyStatement.
VisitTryFinallyStatement(stmt, cg) ==
    LET c0 == Labels(cg, 2)
        finally_entry == Len(cg.bound) + 1
        try_handler_setup == Len(cg.bound) + 2
        c1 == Emit(c0, "call", try_handler_setup, 0)
        c2 == masm_CallRuntime(Emit(Emit(c1, "call", finally_entry, 0), "push_eax", 0, 0),
                               "kReThrow", 1, stmt.id)
        c3 == PushNested(Bind(c2, finally_entry),
                         NestedStatement("Finally", stmt.id, 0, 0, 0))
        c4 == Visit(stmt.kids[2], Emit(c3, "EnterFinallyBlock", 0, stmt.id))
        c5 == PopNested(Emit(c4, "ExitFinallyBlock", 0, stmt.id))
        c6 == PushNested(Bind(c5, try_handler_setup),
                         NestedStatement("TryFinally", stmt.id, 0, 0, finally_entry))
        c7 == Visit(stmt.kids[1], Emit(c6, "PushTryHandler", TRY_FINALLY_HANDLER, stmt.id))
        c8 == PopNested(PopTryHandler(c7, stmt.id))
    IN Note(Emit(c8, "call", finally_entry, 0),
            Targets("TryFinally", stmt.id, Len(c5.code) + 1, 0, 0, 0, 0, finally_entry,
                    Len(cg.code) + 2))

\* node->Accept(visitor): the virtual dispatch on the node type.
Accept(node, cg) ==
    CASE node.t = "Literal"             -> VisitLiteral(node, cg)
      [] node.t = "Assignment"          -> VisitAssignment(node, cg)
      [] node.t = "BinaryOperation"     -> VisitBinaryOperation(node, cg)
      [] node.t = "Throw"               -> VisitThrow(node, cg)
      [] node.t = "Block"               -> VisitBlock(node, cg)
      [] node.t = "ExpressionStatement" -> VisitExpressionStatement(node, cg)
      [] node.t = "EmptyStatement"      -> VisitEmptyStatement(node, cg)
      [] node.t = "IfStatement"         -> VisitIfStatement(node, cg)
      [] node.t = "ContinueStatement"   -> VisitContinueStatement(node, cg)
      [] node.t = "BreakStatement"      -> VisitBreakStatement(node, cg)
      [] node.t = "ReturnStatement"     -> VisitReturnStatement(node, cg)
      [] node.t = "DoWhileStatement"    -> VisitDoWhileStatement(node, cg)
      [] node.t = "WhileStatement"      -> VisitWhileStatement(node, cg)
      [] node.t = "ForStatement"        -> VisitForStatement(node, cg)
      [] node.t = "TryCatchStatement"   -> VisitTryCatchStatement(node, cg)
      [] node.t = "TryFinallyStatement" -> VisitTryFinallyStatement(node, cg)
      [] node.t = "Conditional"         -> VisitConditional(node, cg)
      [] node.t = "CatchExtensionObject" -> VisitCatchExtensionObject(node, cg)
      [] node.t = "WithEnterStatement"  -> VisitWithEnterStatement(node, cg)
      [] node.t = "WithExitStatement"   -> VisitWithExitStatement(node, cg)
      [] node.t = "DebuggerStatement"   -> VisitDebuggerStatement(node, cg)
      [] OTHER                          -> Emit(cg, "UNREACHABLE", 0, node.id)

\* AstVisitor::HasStackOverflow, SetStackOverflow and CheckStackOverflow:
\* once set, the flag stays set.
HasStackOverflow(cg) == cg.stack_overflow_
SetStackOverflow(cg, where) ==
    [cg EXCEPT !.stack_overflow_ = TRUE, !.overflow_in = IF @ = "" THEN where ELSE @]
CheckStackOverflow(cg) ==
    IF cg.stack_overflow_ THEN cg
    ELSE IF cg.stack_limited /\ cg.depth >= cg.stack_limit
         THEN SetStackOverflow(cg, "Visit")
         ELSE cg

\* The generator after node was accepted, with a record of the visit: the
\* nesting stack when the visit began and when it returned.
Visited(node, cg, accepted) ==
    [accepted EXCEPT !.depth = cg.depth,
                     !.visits = Append(@, [id |-> node.id, t |-> node.t,
                                           before |-> cg.nesting_stack_,
                                           after |-> accepted.nesting_stack_])]

\* AstVisitor::Visit: if (!CheckStackOverflow()) node->Accept(this), one
\* level deeper on the stack.
VisitChecked(node, cg) ==
    IF CheckStackOverflow(cg).stack_overflow_ THEN CheckStackOverflow(cg)
    ELSE CHOOSE visited \in
             {Visited(node, cg, accepted) :
                  accepted \in {Accept(node, [cg EXCEPT !.depth = @ + 1])}} : TRUE

\* The code emitted so far is complete when the node is visited: the
\* generator's state is a value before the visit begins.
Visit(node, cg) == CHOOSE visited \in {VisitChecked(node, c) : c \in {cg}} : TRUE

\* Compiler::BuildBoilerplate(fun, script, caller): the literal is compiled
\* on the same stack, fun.v levels deep, and an overflow is reported to the
\* caller.
BuildBoilerplate(fun, cg) ==
    IF cg.stack_limited /\ cg.depth + fun.v > cg.stack_limit
    THEN SetStackOverflow(cg, "BuildBoilerplate")
    ELSE cg

\* FullCodeGenerator::VisitDeclaration: the code that declares a variable
\* or function at run time.
VisitDeclaration(decl, cg) == Emit(cg, "Declare", decl.kids[1].id, decl.id)

\* FullCodeGenerator::DeclareGlobals: the code that declares the globals of
\* the array.
DeclareGlobals(array, cg) ==
    [Emit(cg, "DeclareGlobals", Len(array), 0) EXCEPT !.declared = TRUE, !.globals = array]

\* The test of VisitDeclarations for a declaration left to run time.
DeclaredAtRuntime(decl) ==
    slot_type(decl.kids[1].op) = "LOOKUP" \/ ~is_global(decl.kids[1].op)

\* The test of VisitDeclarations for a declaration put into the array of
\* globals.
DeclaredInArray(decl) ==
    /\ slot_type(decl.kids[1].op) = "NULL" \/ slot_type(decl.kids[1].op) # "LOOKUP"
    /\ is_global(decl.kids[1].op)

\* A first loop that passes every declaration to VisitDeclaration.
RECURSIVE VisitRuntimeDeclarationsOfAll(_, _)
VisitRuntimeDeclarationsOfAll(declarations, cg) ==
    IF declarations = <<>> THEN cg
    ELSE VisitRuntimeDeclarationsOfAll(Tail(declarations),
                                       VisitDeclaration(Head(declarations), cg))

\* The first loop of VisitDeclarations.
RECURSIVE VisitRuntimeDeclarations(_, _)
VisitRuntimeDeclarations(declarations, cg) ==
    IF declarations = <<>> THEN cg
    ELSE VisitRuntimeDeclarations(
             Tail(declarations),
             IF DeclaredAtRuntime(Head(declarations))
             THEN VisitDeclaration(Head(declarations), cg) ELSE cg)

\* The second loop of VisitDeclarations: the array of names and values;
\* filled.returned tells that the function returned from inside the loop.
Element(kind, id) == [kind |-> kind, id |-> id]
RECURSIVE FillGlobals(_, _)
FillGlobals(declarations, filled) ==
    IF declarations = <<>> \/ filled.returned THEN filled
    ELSE LET decl == Head(declarations)
             named == Append(filled.array, Element("name", decl.kids[1].id))
         IN IF ~DeclaredInArray(decl) THEN FillGlobals(Tail(declarations), filled)
            ELSE IF decl.kids[2].t = "NULL"
            THEN FillGlobals(Tail(declarations),
                             [filled EXCEPT !.array =
                                  Append(named, Element(IF mode(decl.kids[1].op) = "CONST"
                                                        THEN "the_hole" ELSE "undefined", 0))])
            ELSE LET built == BuildBoilerplate(decl.kids[2], filled.cg)
                 IN IF HasStackOverflow(built)
                    THEN [filled EXCEPT !.cg = built, !.returned = TRUE]
                    ELSE FillGlobals(Tail(declarations),
                                     [filled EXCEPT !.cg = built, !.array =
                                          Append(named, Element("function", decl.kids[2].id))])

\* A VisitDeclarations that goes on to DeclareGlobals after an overflow.
VisitDeclarationsDeclaresAnyway(declarations, cg) ==
    LET c0 == VisitRuntimeDeclarations(declarations, cg)
        filled == FillGlobals(declarations, [cg |-> c0, array |-> <<>>, returned |-> FALSE])
    IN IF \A i \in DOMAIN declarations : DeclaredAtRuntime(declarations[i]) THEN c0
       ELSE DeclareGlobals(filled.array, filled.cg)

\* FullCodeGenerator::VisitDeclarations.
VisitDeclarations(declarations, cg) ==
    LET c0 == VisitRuntimeDeclarations(declarations, cg)
        filled == FillGlobals(declarations, [cg |-> c0, array |-> <<>>, returned |-> FALSE])
    IN IF \A i \in DOMAIN declarations : DeclaredAtRuntime(declarations[i]) THEN c0
       ELSE IF filled.returned THEN filled.cg
       ELSE DeclareGlobals(filled.array, filled.cg)

\* FullCodeGenerator::Generate: the declarations, the body's statements,
\* then the return of undefined for control that falls off the end of the
\* body.
GenerateFunction(declarations, body, cg) ==
    Emit(Emit(VisitStatements(body, VisitDeclarations(declarations, cg)),
              "mov_lit", Undefined, 0),
         "Return", 0, 0)

\* FullCodeGenerator cgen(&masm, script, is_eval), on a stack with room for
\* stack_limit nested visits when stack_limited.
FullCodeGenerator(stack_limited, stack_limit) ==
    [NewCodeGenerator EXCEPT !.stack_limited = stack_limited, !.stack_limit = stack_limit]

\* What MakeCode returns: Handle<Code>::null() or the code object.
CodeHandle(is_null, cgen) ==
    [is_null |-> is_null, code |-> IF is_null THEN <<>> ELSE cgen.code]

\* A MakeCode that makes the code object whatever the generator reports.
MakeCodeIgnoringStackOverflow(declarations, body, stack_limited, stack_limit) ==
    CHOOSE made_code \in
        {[handle |-> CodeHandle(FALSE, cgen), cgen |-> cgen] :
             cgen \in {GenerateFunction(declarations, body,
                                        FullCodeGenerator(stack_limited, stack_limit))}} : TRUE

\* FullCodeGenerator::MakeCode, with the generator it used.
MakeCodeOf(declarations, body, stack_limited, stack_limit) ==
    CHOOSE made_code \in
        {[handle |-> CodeHandle(HasStackOverflow(cgen), cgen), cgen |-> cgen] :
             cgen \in {GenerateFunction(declarations, body,
                                        FullCodeGenerator(stack_limited, stack_limit))}} : TRUE

(***************************************************************************)
(* II.5  The functions compiled.  A function body is built from a chain of *)
(* nested statements, outermost first, around one innermost statement; or  *)
(* it is a single statement around a logical expression.                   *)
(***************************************************************************)

\* Deepest nesting of the statement chains.
MaxDepth == 2

\* Largest literal value; 0 is the falsy literal.
MaxVal == 2

\* The statement "var = v;", with the ids id, id + 1, id + 2.
Effect(id, var, v) == ExpressionStatement(id, Assignment(id + 1, var, Literal(id + 2, v)))

\* The statement "throw v;".
ThrowStatement(id, v) == ExpressionStatement(id, Throw(id + 1, Literal(id + 2, v)))

Kinds ==
    {"Block", "While", "DoWhile", "For", "TryOfCatch", "CatchOfThrow",
     "TryOfFinally", "FinallyOfFall", "FinallyOfThrow", "FinallyOfReturn"}

BreakableKinds == {"Block", "While", "DoWhile", "DoWhileAgain", "For"}
LoopKinds == {"While", "DoWhile", "DoWhileAgain", "For"}

\* One level of a chain: the statement of the given kind, with ids b .. b + 9,
\* that has inner as its body, try block, catch block or finally block.
Wrap(kind, b, inner) ==
    CASE kind = "Block" -> Block(b, <<inner>>)
      [] kind = "While" -> WhileStatement(b, Literal(b + 1, 1), inner)
      [] kind = "DoWhile" -> DoWhileStatement(b, Literal(b + 1, 0), inner)
      [] kind = "DoWhileAgain" -> DoWhileStatement(b, Literal(b + 1, 1), inner)
      [] kind = "For" ->
             ForStatement(b, NullNode, Literal(b + 1, 1), Effect(b + 2, 4, 1), inner)
      [] kind = "TryOfCatch" ->
             TryCatchStatement(b, 3, Block(b + 1, <<inner>>),
                               Block(b + 2, <<Effect(b + 3, 2, 5)>>))
      [] kind = "CatchOfThrow" ->
             TryCatchStatement(b, 3, Block(b + 1, <<ThrowStatement(b + 3, 2)>>),
                               Block(b + 2, <<inner>>))
      [] kind = "TryOfFinally" ->
             TryFinallyStatement(b, Block(b + 1, <<inner>>),
                                 Block(b + 2, <<Effect(b + 3, 1, 7)>>))
      [] kind = "FinallyOfFall" ->
             TryFinallyStatement(b, Block(b + 1, <<Effect(b + 3, 1, 7)>>),
                                 Block(b + 2, <<inner>>))
      [] kind = "FinallyOfThrow" ->
             TryFinallyStatement(b, Block(b + 1, <<ThrowStatement(b + 3, 2)>>),
                                 Block(b + 2, <<inner>>))
      [] kind = "FinallyOfReturn" ->
             TryFinallyStatement(b, Block(b + 1, <<ReturnStatement(b + 3, Literal(b + 4, 1))>>),
                                 Block(b + 2, <<inner>>))

RECURSIVE BuildChain(_, _, _)
BuildChain(chain, i, innermost) ==
    IF i > Len(chain) THEN innermost
    ELSE Wrap(chain[i], 10 * i, BuildChain(chain, i + 1, innermost))

\* Chains one deeper than MaxDepth: a loop around two try statements, and a
\* jump out of a finally block inside a try block inside a loop or block;
\* and the chains of a do-while loop that goes round again.
DeepChains ==
    {<<"DoWhileAgain">>, <<"DoWhileAgain", "Block">>, <<"DoWhileAgain", "TryOfFinally">>,
     <<"While", "DoWhileAgain">>,
     <<"While", "TryOfFinally", "TryOfFinally">>,
     <<"For", "TryOfFinally", "TryOfCatch">>,
     <<"DoWhile", "TryOfCatch", "TryOfFinally">>,
     <<"Block", "TryOfFinally", "FinallyOfThrow">>,
     <<"While", "TryOfFinally", "FinallyOfReturn">>}

Chains == (UNION {[1..n -> Kinds] : n \in 0..MaxDepth}) \cup DeepChains

\* The innermost statements of a chain: a break to any enclosing breakable
\* statement, a continue to any enclosing loop, a return, a throw, and a
\* statement that completes normally.
Innermost(chain) ==
    LET b == 10 * (Len(chain) + 1) IN
    {BreakStatement(b, 10 * i) : i \in {k \in 1..Len(chain) : chain[k] \in BreakableKinds}}
        \cup {ContinueStatement(b, 10 * i) : i \in {k \in 1..Len(chain) : chain[k] \in LoopKinds}}
        \cup {ReturnStatement(b, Literal(b + 1, 3)), ThrowStatement(b, 4), Effect(b, 6, 6)}

ChainPrograms ==
    UNION {{<<BuildChain(chain, 1, s), Effect(90, 5, 9)>> : s \in Innermost(chain)} :
               chain \in Chains}

\* Operands of the logical expressions: a literal, or an assignment of a
\* literal to the variable numbered like the operand.
Operands(id) ==
    {Literal(id, v) : v \in 0..MaxVal}
        \cup {Assignment(id, id, Literal(id + 1, v)) : v \in 0..MaxVal}
AssignOperands(id) == {Assignment(id, id, Literal(id + 1, v)) : v \in 0..MaxVal}

LogicalOps == {"OR", "AND"}

\* a op b, (a op b) op c and a op (b op c).
LogicalExpressions ==
    {BinaryOperation(9, o, a, b) : o \in LogicalOps, a \in Operands(1), b \in Operands(3)}
        \cup {BinaryOperation(9, o, BinaryOperation(8, q, a, b), c) :
                  o \in LogicalOps, q \in LogicalOps,
                  a \in AssignOperands(1), b \in AssignOperands(3), c \in AssignOperands(5)}
        \cup {BinaryOperation(9, o, a, BinaryOperation(8, q, b, c)) :
                  o \in LogicalOps, q \in LogicalOps,
                  a \in AssignOperands(1), b \in AssignOperands(3), c \in AssignOperands(5)}

\* The statements that put an expression in an effect context, in a value
\* context (accumulator and stack) and in a test context.
ExpressionPrograms ==
    UNION {{<<ReturnStatement(10, e)>>,
            <<ExpressionStatement(10, e)>>,
            <<ExpressionStatement(10, Throw(11, e))>>,
            <<IfStatement(10, e, Effect(20, 7, 1), Effect(30, 7, 2))>>} :
               e \in LogicalExpressions}

\* The assignments to a variable and to a named or keyed property, plain
\* and compound.
AssignmentTargets(id) ==
    {VariableProxy(id, "local"),
     Property(id, Literal(id + 1, 1), PropertyName(id + 2, 2)),
     Property(id, Literal(id + 1, 1), Literal(id + 2, 2))}
AssignmentsBy(op, id) ==
    {AssignmentTo(id, op, target, Literal(id + 5, v)) :
         target \in AssignmentTargets(id + 1), v \in 1..MaxVal}
Assignments(id) == AssignmentsBy("ASSIGN", id) \cup AssignmentsBy("ASSIGN_ADD", id)

\* A conditional expression with a literal or an assignment as condition.
Conditionals(id) ==
    {Conditional(id, c, Literal(id + 3, 1), Literal(id + 4, 2)) : c \in Operands(id + 1)}

\* Functions of one statement with an assignment or a conditional in an
\* effect, a value and a test context (a returned assignment is a plain
\* one); a with statement, entered and left; the context of a catch block;
\* and a debugger statement.
StatementPrograms ==
    UNION {{<<ExpressionStatement(10, e)>>,
            <<ExpressionStatement(10, Throw(11, e))>>,
            <<IfStatement(10, e, Effect(30, 7, 1), Effect(40, 7, 2))>>} :
               e \in Assignments(20) \cup Conditionals(20)}
        \cup {<<ReturnStatement(10, e)>> : e \in AssignmentsBy("ASSIGN", 20) \cup Conditionals(20)}
        \cup {<<WithEnterStatement(10, Literal(11, v)), Effect(20, 5, 1),
                Leaf("WithExitStatement", 30), Leaf("DebuggerStatement", 40)>> : v \in 1..MaxVal}
        \cup {<<CatchEnterStatement(10, CatchExtensionObject(11, PropertyName(12, 1),
                                                               Literal(13, v))),
                Effect(20, 5, 1), Leaf("WithExitStatement", 30)>> : v \in 1..MaxVal}

Programs == ChainPrograms \cup ExpressionPrograms \cup StatementPrograms

\* Largest number of nested visits a limited stack has room for.
MaxStack == 4

\* The declarations of the functions compiled on a limited stack: global
\* variables and constants, global functions whose boilerplate recurses one
\* or two levels deep, and variables declared at run time.
DeclarationsAt(b) ==
    {Declaration(b, VariableProxy(b + 1, "global"), NullNode),
     Declaration(b, VariableProxy(b + 1, "global_const"), NullNode),
     Declaration(b, VariableProxy(b + 1, "global"), DeclaredFunction(b + 2, 1)),
     Declaration(b, VariableProxy(b + 1, "global"), DeclaredFunction(b + 2, 2)),
     Declaration(b, VariableProxy(b + 1, "lookup"), NullNode),
     Declaration(b, VariableProxy(b + 1, "global_lookup"), NullNode),
     Declaration(b, VariableProxy(b + 1, "local"), NullNode)}
DeclarationLists ==
    {<<>>} \cup {<<d>> : d \in DeclarationsAt(100)}
        \cup {<<d1, d2>> : d1 \in DeclarationsAt(100), d2 \in DeclarationsAt(110)}

\* Their bodies: one, two and four visits deep.
DeclaringPrograms ==
    {<<EmptyStatement(10)>>,
     <<ExpressionStatement(10, Literal(11, 1))>>,
     <<Block(10, <<Effect(20, 6, 6)>>)>>}

\* The function compiled and the stack it is compiled on.
FunctionScope(declarations, stack_limited, stack_limit) ==
    [declarations |-> declarations, stack_limited |-> stack_limited,
     stack_limit |-> stack_limit]

(***************************************************************************)
(* II.6  Running the emitted code.                                         *)
(***************************************************************************)

\* Events recorded after which the run is not followed further.
MaxTrace == 12

\* ToBoolean of the values of the model.
Truthy(v) == v # 0 /\ v # Undefined

Slot(t, v) == [t |-> t, v |-> v]
Event(e, id, v) == [e |-> e, id |-> id, v |-> v]

Running == status = "running" /\ pc \in 1..Len(code) /\ Len(trace) < MaxTrace

Top(n) == stack[Len(stack) + 1 - n]
Popped(n) == SubSeq(stack, 1, Len(stack) - n)

\* The first instruction of a compiled break/continue/return is about to be
\* executed: the trace notes which, and the result register at that time.
Started(at) ==
    IF \E i \in 1..Len(jumps) : jumps[i].start = at
    THEN <<Event("jump", jumps[CHOOSE i \in 1..Len(jumps) : jumps[i].start = at].stmt, eax)>>
    ELSE <<>>

\* The last instruction of a compiled break/continue/return is executed.
Arrived(at) ==
    IF \E i \in 1..Len(jumps) : jumps[i].end = at
    THEN <<Event("arrive", jumps[CHOOSE i \in 1..Len(jumps) : jumps[i].end = at].stmt, eax)>>
    ELSE <<>>

\* Control goes to position to; a position outside the code is a crash.
Goto(to) ==
    /\ pc' = to
    /\ status' = IF to \in 1..Len(code) THEN "running" ELSE "crashed"

\* The compiled function stays as it is while its code runs; the context
\* register is changed by the code of the with statements only.
Compiled == UNCHANGED <<prog, code, bound, jumps, logical, function_scope, targets, made, esi>>
WithCompiled == UNCHANGED <<prog, code, bound, jumps, logical, function_scope, targets, made>>

InitCg ==
    /\ CacheEmpty /\ NoCheck /\ NoRecordWriteStub /\ NoStubGeneration
    /\ \/ prog \in Programs /\ function_scope = FunctionScope(<<>>, FALSE, 0)
       \/ /\ prog \in DeclaringPrograms
          /\ function_scope \in {FunctionScope(d, FALSE, 0) : d \in DeclarationLists}
                 \cup {FunctionScope(d, TRUE, n) : d \in DeclarationLists, n \in 1..MaxStack}
    /\ targets = <<>>
    /\ made = <<>>
    /\ code = <<>>
    /\ bound = <<>>
    /\ jumps = <<>>
    /\ logical = <<>>
    /\ status = "idle"
    /\ pc = 0
    /\ stack = <<>>
    /\ eax = 0
    /\ esi = 0
    /\ handler = 0
    /\ frame = <<>>
    /\ trace = <<>>

\* The code objects that the assembler m obtained with GetCode, each with
\* the key of the stub it was made for.
ObtainedBy(m) ==
    {<<m.st.heap[m.log[i].code].key, m.log[i].code>> :
         i \in {j \in DOMAIN m.log : m.log[j].op = "GetCode"}}

\* FullCodeGenerator::MakeCode: the function is compiled; without a code
\* object the compilation has failed, otherwise the code is entered with an
\* empty operand stack and no handler of its own.  The stubs that the
\* generator called through its assembler have been generated and entered in
\* the stub cache, whether or not the compilation failed.
MakeCode ==
    /\ status = "idle"
    /\ \E result \in {MakeCodeOf(function_scope.declarations, prog,
                                   function_scope.stack_limited, function_scope.stack_limit)} :
       LET cg == result.cgen
           is_null == result.handle.is_null
       IN /\ made' = [is_null |-> is_null, stack_overflow |-> cg.stack_overflow_,
                      overflow_in |-> cg.overflow_in, emitted |-> Len(cg.code),
                      declared |-> cg.declared, globals |-> cg.globals,
                      visits |-> cg.visits, nesting_stack_ |-> cg.nesting_stack_]
          /\ code' = result.handle.code
          /\ bound' = IF is_null THEN <<>> ELSE cg.bound
          /\ jumps' = IF is_null THEN <<>> ELSE cg.jumps
          /\ logical' = IF is_null THEN <<>> ELSE cg.logical
          /\ targets' = IF is_null THEN <<>> ELSE cg.targets
          /\ status' = IF is_null THEN "failed" ELSE "running"
          /\ pc' = IF is_null THEN 0 ELSE 1
          /\ code_stubs' = cg.masm_.st.code_stubs
          /\ custom_cache' = cg.masm_.st.custom_cache
          /\ heap' = cg.masm_.st.heap
          /\ counter' = cg.masm_.st.counter
          /\ got' = [k \in (DOMAIN got) \cup {o[1] : o \in ObtainedBy(cg.masm_)} |->
                        IF k \in DOMAIN got THEN got[k]
                        ELSE (CHOOSE o \in ObtainedBy(cg.masm_) : o[1] = k)[2]]
          /\ given' = given \cup ObtainedBy(cg.masm_)
    /\ UNCHANGED <<prog, stack, eax, esi, handler, frame, trace, function_scope>>
    /\ UNCHANGED <<last, gateVars, keyVars, masmVars>>

\* jmp label.
ExecJmp ==
    /\ Running /\ code[pc].op = "jmp"
    /\ Goto(bound[code[pc].a])
    /\ trace' = trace \o Started(pc) \o Arrived(pc)
    /\ UNCHANGED <<stack, eax, handler, frame>>
    /\ Compiled /\ UNCHANGED <<stubVars, gateVars, keyVars, masmVars>>

\* EmitReturnSequence: the frame is torn down and the function returns the
\* result register.
ExecReturn ==
    /\ Running /\ code[pc].op = "Return"
    /\ status' = "returned"
    /\ trace' = trace \o Started(pc) \o Arrived(pc)
    /\ UNCHANGED <<pc, stack, eax, handler, frame>>
    /\ Compiled /\ UNCHANGED <<stubVars, gateVars, keyVars, masmVars>>

\* call label: the return address is pushed.
ExecCall ==
    /\ Running /\ code[pc].op = "call"
    /\ stack' = Append(stack, Slot("ret", pc + 1))
    /\ Goto(bound[code[pc].a])
    /\ trace' = trace \o Started(pc)
    /\ UNCHANGED <<eax, handler, frame>>
    /\ Compiled /\ UNCHANGED <<stubVars, gateVars, keyVars, masmVars>>

\* The conditional jumps of DoTest on the truth of the result register.
ExecBranch ==
    /\ Running /\ code[pc].op \in {"jtrue", "jfalse"}
    /\ Goto(IF (code[pc].op = "jtrue") = Truthy(eax) THEN bound[code[pc].a] ELSE pc + 1)
    /\ UNCHANGED <<stack, eax, handler, frame, trace>>
    /\ Compiled /\ UNCHANGED <<stubVars, gateVars, keyVars, masmVars>>

\* mov result_register, literal.
ExecMov ==
    /\ Running /\ code[pc].op = "mov_lit"
    /\ eax' = code[pc].a
    /\ Goto(pc + 1)
    /\ trace' = trace \o Started(pc)
    /\ UNCHANGED <<stack, handler, frame>>
    /\ Compiled /\ UNCHANGED <<stubVars, gateVars, keyVars, masmVars>>

\* push literal and push result_register.
ExecPush ==
    /\ Running /\ code[pc].op \in {"push_lit", "push_eax"}
    /\ stack' = Append(stack, Slot("val", IF code[pc].op = "push_lit" THEN code[pc].a ELSE eax))
    /\ Goto(pc + 1)
    /\ UNCHANGED <<eax, handler, frame, trace>>
    /\ Compiled /\ UNCHANGED <<stubVars, gateVars, keyVars, masmVars>>

\* EmitVariableAssignment: the result register is stored in the variable.
ExecStoreVar ==
    /\ Running /\ code[pc].op = "store_var"
    /\ frame' = AtNumberPut(frame, code[pc].a, eax)
    /\ trace' = trace \o <<Event("store", code[pc].b, eax)>>
    /\ Goto(pc + 1)
    /\ UNCHANGED <<stack, eax, handler>>
    /\ Compiled /\ UNCHANGED <<stubVars, gateVars, keyVars, masmVars>>

\* add esp, n * kPointerSize (MacroAssembler::Drop).
ExecDrop ==
    /\ Running /\ code[pc].op = "add_esp"
    /\ IF code[pc].a <= Len(stack)
       THEN stack' = Popped(code[pc].a) /\ Goto(pc + 1)
       ELSE stack' = <<>> /\ status' = "crashed" /\ pc' = pc
    /\ trace' = trace \o Started(pc)
    /\ UNCHANGED <<eax, handler, frame>>
    /\ Compiled /\ UNCHANGED <<stubVars, gateVars, keyVars, masmVars>>

\* MacroAssembler::PushTryHandler(IN_JAVASCRIPT, type): above the return
\* address already on the stack go the state, the frame pointer and the
\* current handler, and the new record becomes the current handler.
ExecPushTryHandler ==
    /\ Running /\ code[pc].op = "PushTryHandler"
    /\ stack' = stack \o <<Slot("state", code[pc].a), Slot("fp", 0), Slot("next", handler)>>
    /\ handler' = Len(stack) + 3
    /\ Goto(pc + 1)
    /\ UNCHANGED <<eax, frame, trace>>
    /\ Compiled /\ UNCHANGED <<stubVars, gateVars, keyVars, masmVars>>

\* The four words on top of the stack are the current handler's record.
HandlerOnTop ==
    /\ Len(stack) >= 4 /\ handler = Len(stack)
    /\ Top(1).t = "next" /\ Top(2).t = "fp" /\ Top(3).t = "state" /\ Top(4).t = "ret"

\* A plausible defect: the return address below the record is left on the stack.
ExecPopTryHandlerLeavingReturnAddress ==
    /\ Running /\ code[pc].op = "PopTryHandler"
    /\ IF Len(stack) >= 4
       THEN /\ handler' = Top(1).v
            /\ stack' = Popped(3)
            /\ pc' = pc + 1
            /\ status' = IF HandlerOnTop THEN "running" ELSE "crashed"
       ELSE handler' = handler /\ stack' = <<>> /\ status' = "crashed" /\ pc' = pc
    /\ trace' = trace \o Started(pc)
    /\ UNCHANGED <<eax, frame>>
    /\ Compiled /\ UNCHANGED <<stubVars, gateVars, keyVars, masmVars>>

\* MacroAssembler::PopTryHandler: the word on top of the stack becomes the
\* current handler and the other three words of the record are dropped.
ExecPopTryHandler ==
    /\ Running /\ code[pc].op = "PopTryHandler"
    /\ IF Len(stack) >= 4
       THEN /\ handler' = Top(1).v
            /\ stack' = Popped(4)
            /\ pc' = pc + 1
            /\ status' = IF HandlerOnTop THEN "running" ELSE "crashed"
       ELSE handler' = handler /\ stack' = <<>> /\ status' = "crashed" /\ pc' = pc
    /\ trace' = trace \o Started(pc)
    /\ UNCHANGED <<eax, frame>>
    /\ Compiled /\ UNCHANGED <<stubVars, gateVars, keyVars, masmVars>>

\* The record of the current handler is intact on the stack.
HandlerIntact ==
    /\ handler \in 4..Len(stack)
    /\ stack[handler].t = "next" /\ stack[handler - 1].t = "fp"
    /\ stack[handler - 2].t = "state" /\ stack[handler - 3].t = "ret"

\* Runtime::kThrow and Runtime::kReThrow: the exception is the argument on
\* the stack.  Without a handler in this function the exception leaves it;
\* otherwise the stack is unwound to the current handler, the record is
\* removed, and control goes to the record's code address with the exception
\* in the result register.
ExecThrow ==
    /\ Running /\ code[pc].op \in {"CallRuntime_kThrow", "CallRuntime_kReThrow"}
    /\ Len(stack) >= 1
    /\ LET exception == Top(1).v
           thrown == Event(IF code[pc].op = "CallRuntime_kThrow" THEN "throw" ELSE "rethrow",
                           pc, exception)
       IN /\ eax' = exception
          /\ IF handler = 0
             THEN /\ status' = "uncaught" /\ pc' = pc
                  /\ stack' = Popped(1) /\ handler' = handler
                  /\ trace' = Append(trace, thrown)
             ELSE IF HandlerIntact
             THEN /\ stack' = SubSeq(stack, 1, handler - 4)
                  /\ handler' = stack[handler].v
                  /\ Goto(stack[handler - 3].v)
                  /\ trace' = trace \o <<thrown, Event("dispatch", stack[handler - 3].v, exception)>>
             ELSE /\ status' = "crashed" /\ pc' = pc
                  /\ stack' = stack /\ handler' = handler
                  /\ trace' = Append(trace, thrown)
    /\ UNCHANGED frame
    /\ Compiled /\ UNCHANGED <<stubVars, gateVars, keyVars, masmVars>>

\* StoreToFrameField(SlotOffset(variable_slot), result_register()).
ExecStoreToFrameField ==
    /\ Running /\ code[pc].op = "StoreToFrameField"
    /\ code[pc].a # StandardFrameConstants_kContextOffset
    /\ frame' = AtNumberPut(frame, code[pc].a, eax)
    /\ trace' = trace \o <<Event("catch", code[pc].b, eax)>>
    /\ Goto(pc + 1)
    /\ UNCHANGED <<stack, eax, handler>>
    /\ Compiled /\ UNCHANGED <<stubVars, gateVars, keyVars, masmVars>>

\* FullCodeGenerator::EnterFinallyBlock: the return address on top of the
\* stack is cooked in place and the result register is pushed.
ExecEnterFinallyBlock ==
    /\ Running /\ code[pc].op = "EnterFinallyBlock"
    /\ stack' = Append(stack, Slot("val", eax))
    /\ trace' = trace \o <<Event("finally", code[pc].b,
                                 IF Len(stack) >= 1 /\ Top(1).t = "ret" THEN Top(1).v ELSE 0)>>
    /\ Goto(pc + 1)
    /\ UNCHANGED <<eax, handler, frame>>
    /\ Compiled /\ UNCHANGED <<stubVars, gateVars, keyVars, masmVars>>

\* FullCodeGenerator::ExitFinallyBlock: the result register is popped, the
\* return address is uncooked and returned to.
ExecExitFinallyBlock ==
    /\ Running /\ code[pc].op = "ExitFinallyBlock"
    /\ IF Len(stack) >= 2 /\ Top(1).t = "val" /\ Top(2).t = "ret"
       THEN /\ eax' = Top(1).v
            /\ stack' = Popped(2)
            /\ Goto(Top(2).v)
            /\ trace' = trace \o <<Event("leave", code[pc].b, Top(2).v)>>
       ELSE /\ status' = "crashed" /\ pc' = pc
            /\ UNCHANGED <<eax, stack, trace>>
    /\ UNCHANGED <<handler, frame>>
    /\ Compiled /\ UNCHANGED <<stubVars, gateVars, keyVars, masmVars>>

\* MacroAssembler::StackLimitCheck when esp is not below the stack limit.
ExecStackLimitCheckPasses ==
    /\ Running /\ code[pc].op = "StackLimitCheck"
    /\ Goto(pc + 1)
    /\ trace' = trace \o <<Event("check", code[pc].b, 0)>>
    /\ UNCHANGED <<stack, eax, handler, frame>>
    /\ Compiled /\ UNCHANGED <<stubVars, gateVars, keyVars, masmVars>>

\* MacroAssembler::StackLimitCheck when esp is below the stack limit.
ExecStackLimitCheckTrips ==
    /\ Running /\ code[pc].op = "StackLimitCheck"
    /\ Goto(bound[code[pc].a])
    /\ trace' = trace \o <<Event("check", code[pc].b, 1)>>
    /\ UNCHANGED <<stack, eax, handler, frame>>
    /\ Compiled /\ UNCHANGED <<stubVars, gateVars, keyVars, masmVars>>

\* CallStub(&stack_stub): the stack guard runs and returns.
ExecCallStub ==
    /\ Running /\ code[pc].op = "CallStub_StackCheck"
    /\ Goto(pc + 1)
    /\ trace' = trace \o <<Event("stub", pc, 0)>>
    /\ UNCHANGED <<stack, eax, handler, frame>>
    /\ Compiled /\ UNCHANGED <<stubVars, gateVars, keyVars, masmVars>>

\* The code emitted by VisitDeclaration and DeclareGlobals: the runtime
\* declares the variables and functions and returns.
ExecDeclare ==
    /\ Running /\ code[pc].op \in {"Declare", "DeclareGlobals"}
    /\ Goto(pc + 1)
    /\ trace' = trace \o <<Event("declare", code[pc].a, 0)>>
    /\ UNCHANGED <<stack, eax, handler, frame>>
    /\ Compiled /\ UNCHANGED <<stubVars, gateVars, keyVars, masmVars>>

\* StoreToFrameField(StandardFrameConstants::kContextOffset,
\* context_register()).
ExecStoreContext ==
    /\ Running /\ code[pc].op = "StoreToFrameField"
    /\ code[pc].a = StandardFrameConstants_kContextOffset
    /\ frame' = AtNumberPut(frame, code[pc].a, esi)
    /\ Goto(pc + 1)
    /\ UNCHANGED <<stack, eax, handler, trace>>
    /\ Compiled /\ UNCHANGED <<stubVars, gateVars, keyVars, masmVars>>

\* LoadContextField(context_register(), Context::PREVIOUS_INDEX): the
\* context entered before the current one.
ExecLoadContextField ==
    /\ Running /\ code[pc].op = "LoadContextField"
    /\ code[pc].a = Context_PREVIOUS_INDEX
    /\ IF esi > 0
       THEN esi' = esi - 1 /\ Goto(pc + 1)
       ELSE esi' = esi /\ status' = "crashed" /\ pc' = pc
    /\ UNCHANGED <<stack, eax, handler, frame, trace>>
    /\ WithCompiled /\ UNCHANGED <<stubVars, gateVars, keyVars, masmVars>>

\* CallRuntime(Runtime::kPushContext, 1) and (Runtime::kPushCatchContext,
\* 1): the argument is popped, and the new context is returned in the
\* context register and in the result register.
ExecPushContext ==
    /\ Running /\ code[pc].op \in {"CallRuntime_kPushContext", "CallRuntime_kPushCatchContext"}
    /\ IF Len(stack) >= code[pc].a
       THEN /\ stack' = Popped(code[pc].a)
            /\ esi' = esi + 1 /\ eax' = esi + 1
            /\ Goto(pc + 1)
       ELSE /\ stack' = <<>> /\ status' = "crashed" /\ pc' = pc
            /\ UNCHANGED <<esi, eax>>
    /\ UNCHANGED <<handler, frame, trace>>
    /\ WithCompiled /\ UNCHANGED <<stubVars, gateVars, keyVars, masmVars>>

\* CallRuntime(Runtime::kDebugBreak, 0) and
\* (Runtime::kCreateCatchExtensionObject, 2): the arguments are popped; the
\* first returns undefined, the second the object, which stands for the
\* value it holds.
ExecCallRuntime ==
    /\ Running
    /\ code[pc].op \in {"CallRuntime_kDebugBreak", "CallRuntime_kCreateCatchExtensionObject"}
    /\ IF Len(stack) >= code[pc].a
       THEN /\ stack' = Popped(code[pc].a)
            /\ eax' = IF code[pc].a = 0 THEN Undefined ELSE Top(1).v
            /\ Goto(pc + 1)
       ELSE stack' = <<>> /\ status' = "crashed" /\ pc' = pc /\ eax' = eax
    /\ UNCHANGED <<handler, frame, trace>>
    /\ Compiled /\ UNCHANGED <<stubVars, gateVars, keyVars, masmVars>>

\* EmitVariableLoad in a value context with the stack as location: the
\* variable's value is pushed, undefined when it was never assigned.
ExecVariableLoad ==
    /\ Running /\ code[pc].op = "EmitVariableLoad"
    /\ stack' = Append(stack, Slot("val", IF code[pc].a \in DOMAIN frame
                                          THEN frame[code[pc].a] ELSE Undefined))
    /\ Goto(pc + 1)
    /\ UNCHANGED <<eax, handler, frame, trace>>
    /\ Compiled /\ UNCHANGED <<stubVars, gateVars, keyVars, masmVars>>

\* EmitNamedPropertyLoad and EmitKeyedPropertyLoad: the receiver (and the
\* key) stay on the stack and the property's value, any value of the model,
\* is left in the result register.
ExecPropertyLoad ==
    /\ Running /\ code[pc].op \in {"EmitNamedPropertyLoad", "EmitKeyedPropertyLoad"}
    /\ eax' \in 0..MaxVal
    /\ Goto(pc + 1)
    /\ UNCHANGED <<stack, handler, frame, trace>>
    /\ Compiled /\ UNCHANGED <<stubVars, gateVars, keyVars, masmVars>>

\* EmitBinaryOp: the left operand is popped and the result of the operation,
\* the addition of a compound assignment +=, is left in the result register;
\* an operand that is undefined makes the result undefined.
ExecBinaryOp ==
    /\ Running /\ code[pc].op = "EmitBinaryOp"
    /\ IF Len(stack) >= 1
       THEN /\ stack' = Popped(1)
            /\ eax' = IF Top(1).v = Undefined \/ eax = Undefined THEN Undefined
                       ELSE Top(1).v + eax
            /\ Goto(pc + 1)
       ELSE stack' = <<>> /\ status' = "crashed" /\ pc' = pc /\ eax' = eax
    /\ UNCHANGED <<handler, frame, trace>>
    /\ Compiled /\ UNCHANGED <<stubVars, gateVars, keyVars, masmVars>>

\* EmitNamedPropertyAssignment and EmitKeyedPropertyAssignment: the result
\* register is stored in the property, and the receiver (and the key) are
\* popped.
ExecPropertyAssignment ==
    /\ Running
    /\ code[pc].op \in {"EmitNamedPropertyAssignment", "EmitKeyedPropertyAssignment"}
    /\ LET operands == IF code[pc].op = "EmitNamedPropertyAssignment" THEN 1 ELSE 2
       IN IF Len(stack) >= operands
          THEN /\ stack' = Popped(operands)
               /\ trace' = trace \o <<Event("store", code[pc].b, eax)>>
               /\ Goto(pc + 1)
          ELSE stack' = <<>> /\ status' = "crashed" /\ pc' = pc /\ trace' = trace
    /\ UNCHANGED <<eax, handler, frame>>
    /\ Compiled /\ UNCHANGED <<stubVars, gateVars, keyVars, masmVars>>

NextCg ==
    \/ MakeCode
    \/ ExecDeclare
    \/ ExecJmp
    \/ ExecReturn
    \/ ExecCall
    \/ ExecBranch
    \/ ExecMov
    \/ ExecPush
    \/ ExecStoreVar
    \/ ExecDrop
    \/ ExecPushTryHandler
    \/ ExecPopTryHandler
    \/ ExecThrow
    \/ ExecStoreToFrameField
    \/ ExecEnterFinallyBlock
    \/ ExecExitFinallyBlock
    \/ ExecStackLimitCheckPasses
    \/ ExecStackLimitCheckTrips
    \/ ExecCallStub
    \/ ExecStoreContext
    \/ ExecLoadContextField
    \/ ExecPushContext
    \/ ExecCallRuntime
    \/ ExecVariableLoad
    \/ ExecPropertyLoad
    \/ ExecBinaryOp
    \/ ExecPropertyAssignment

SpecCg == InitCg /\ [][NextCg]_vars

\* The emitted code never runs into a state the code generator did not
\* provide for.
NeverCrashes == status # "crashed"

\* At every return sequence the operand stack is empty and no handler of the
\* function is left on the chain.
ReturnsClean == (status \in {"running", "returned"} /\ pc \in 1..Len(code) /\ code[pc].op = "Return")
                    => (stack = <<>> /\ handler = 0)

(***************************************************************************)
(* II.7  The syntax tree read independently of the code generator, and the *)
(* trace read back.                                                        *)
(***************************************************************************)

\* The nested statement that part k of a statement is compiled under, "" for
\* a part compiled under none.
ScopeOf(node, k) ==
    CASE node.t = "Block" -> "Breakable"
      [] node.t \in {"WhileStatement", "DoWhileStatement", "ForStatement"} -> "Iteration"
      [] node.t = "TryCatchStatement" /\ k = 1 -> "TryCatch"
      [] node.t = "TryFinallyStatement" /\ k = 1 -> "TryFinally"
      [] node.t = "TryFinallyStatement" /\ k = 2 -> "Finally"
      [] OTHER -> ""

Scope(kind, stmt) == [kind |-> kind, stmt |-> stmt]

\* The scopes around the statement numbered id, innermost first, as the set
\* of the one such list (empty when node does not contain the statement).
RECURSIVE Enclosing(_, _)
Enclosing(node, id) ==
    IF node.id = id THEN {<<>>}
    ELSE UNION {{IF ScopeOf(node, k) = "" THEN p ELSE Append(p, Scope(ScopeOf(node, k), node.id)) :
                    p \in Enclosing(node.kids[k], id)} : k \in DOMAIN node.kids}

LexicalScopes(id) == CHOOSE p \in UNION {Enclosing(prog[i], id) : i \in DOMAIN prog} : TRUE

\* The part of a list of scopes before the first one that is the statement
\* target and of one of the kinds.
Inside(p, kinds, target) ==
    LET hits == {i \in DOMAIN p : p[i].stmt = target /\ p[i].kind \in kinds}
    IN IF hits = {} THEN p
       ELSE SubSeq(p, 1, (CHOOSE i \in hits : \A h \in hits : i <= h) - 1)

\* The scopes between a compiled jump and its target, innermost first.
Crossed(j) ==
    CASE j.kind = "break" -> Inside(LexicalScopes(j.stmt), {"Breakable", "Iteration"}, j.target)
      [] j.kind = "continue" -> Inside(LexicalScopes(j.stmt), {"Iteration"}, j.target)
      [] OTHER -> LexicalScopes(j.stmt)

IsTryFinally(x) == x.kind = "TryFinally"
IsFinally(x) == x.kind = "Finally"

\* The try/finally statements whose try block the jump leaves.
CrossedTries(j) == SelectSeq(Crossed(j), IsTryFinally)

RECURSIVE Sub(_)
Sub(node) == {node} \cup UNION {Sub(node.kids[k]) : k \in DOMAIN node.kids}
AllNodes == UNION {Sub(prog[i]) : i \in DOMAIN prog}
NodeById(id) == CHOOSE n \in AllNodes : n.id = id

JumpOf(id) == jumps[CHOOSE i \in DOMAIN jumps : jumps[i].stmt = id]

\* The index of the last event e of id before position k of the trace, or 0.
LastBefore(e, id, k) ==
    LET hits == {i \in 1..(k - 1) : trace[i].e = e /\ trace[i].id = id}
    IN IF hits = {} THEN 0 ELSE CHOOSE i \in hits : \A h \in hits : h <= i

\* The events of the given kinds strictly between positions m and k.
IsEntryOrExit(x) == x.e \in {"finally", "leave"}
Between(m, k) == SubSeq(trace, m + 1, k - 1)

\* The last event of the trace is the arrival of a compiled jump.
JustArrived == trace # <<>> /\ trace[Len(trace)].e = "arrive" /\ status \in {"running", "returned"}

\* C5: for every compiled break, continue and return, the Exit calls made
\* are exactly the scopes lexically between the statement and its target
\* (for a return, all scopes around it), once each and innermost first, and
\* all of them are made after the statement's code begins and before the
\* final Drop and the jump or return sequence are emitted.
C5_ExitsAreTheCrossedScopes ==
    status # "idle" =>
        \A i \in DOMAIN jumps :
            LET j == jumps[i] IN
            /\ [k \in DOMAIN j.exits |-> Scope(j.exits[k].kind, j.exits[k].stmt)] = Crossed(j)
            /\ \A k \in DOMAIN j.exits :
                   /\ j.start - 1 <= j.exits[k].at /\ j.exits[k].at <= j.drop_at
                   /\ k > 1 => j.exits[k - 1].at <= j.exits[k].at
            /\ j.drop_at < j.end
            /\ code[j.end].op = (IF j.kind = "return" THEN "Return" ELSE "jmp")
            /\ j.kind # "return" => j.scope = j.target

\* A break was compiled that leaves a try block with a finally and at least
\* one more scope inside its target, and a return inside two scopes.
C5_Witness ==
    /\ status = "running"
    /\ \E i \in DOMAIN jumps :
           /\ jumps[i].kind = "break" /\ Len(jumps[i].exits) >= 2
           /\ \E k \in DOMAIN jumps[i].exits : jumps[i].exits[k].kind = "TryFinally"
    /\ \E i \in DOMAIN jumps : jumps[i].kind = "return" /\ Len(jumps[i].exits) >= 2

\* The entries and returns that are not part of the run of another finally
\* body: what lies between an entry and the return that matches it is left
\* out.
RECURSIVE Outermost(_)
Outermost(events) ==
    IF events = <<>> THEN <<>>
    ELSE LET first == Head(events)
             leaves == {i \in 2..Len(events) : events[i].e = "leave" /\ events[i].id = first.id}
         IN IF first.e = "finally" /\ leaves # {}
            THEN LET i == CHOOSE x \in leaves : \A y \in leaves : x <= y
                 IN <<first, events[i]>> \o Outermost(SubSeq(events, i + 1, Len(events)))
            ELSE <<first>> \o Outermost(Tail(events))

\* The entries into and returns from finally bodies between the start of the
\* jump that arrived last and its arrival.
FinallyRunsOfArrival ==
    LET id == trace[Len(trace)].id
    IN Outermost(SelectSeq(Between(LastBefore("jump", id, Len(trace)), Len(trace)),
                           IsEntryOrExit))

\* What the crossed try/finally statements call for: each finally body is
\* entered and left once, the inner before the outer.
RECURSIVE FinallyRunsExpected(_)
FinallyRunsExpected(tries) ==
    IF tries = <<>> THEN <<>>
    ELSE <<"finally", Head(tries).stmt, "leave", Head(tries).stmt>>
             \o FinallyRunsExpected(Tail(tries))

RECURSIVE Flat(_)
Flat(events) ==
    IF events = <<>> THEN <<>>
    ELSE <<Head(events).e, Head(events).id>> \o Flat(Tail(events))

\* C6: when the emitted code of a break, continue or return reaches its
\* target or return sequence, the finally bodies run since the jump began
\* are those of the try/finally statements whose try block it left, once
\* each, the inner before the outer, and no other.
C6_FinallyRunsOnceOnTheWayOut ==
    JustArrived =>
        Flat(FinallyRunsOfArrival) = FinallyRunsExpected(CrossedTries(JumpOf(trace[Len(trace)].id)))

\* A jump arrived after leaving the try blocks of two try/finally statements.
C6_Witness ==
    /\ JustArrived
    /\ Len(CrossedTries(JumpOf(trace[Len(trace)].id))) >= 2
    /\ Len(FinallyRunsOfArrival) = 4

(***************************************************************************)
(* The finally block: how it is entered and what follows it.               *)
(***************************************************************************)

TryFinallyIds == {n.id : n \in {x \in AllNodes : x.t = "TryFinallyStatement"}}

\* Where the finally block of try/finally statement f begins in the code.
EntriesOf(f) == {q \in DOMAIN code : code[q].op = "EnterFinallyBlock" /\ code[q].b = f}

LabelOps == {"jmp", "jtrue", "jfalse", "call", "StackLimitCheck"}

\* The instructions that transfer control to position q, and the calls
\* among them.
TransfersTo(q) ==
    {x \in DOMAIN code : code[x].op \in LabelOps /\ code[x].a \in DOMAIN bound
                             /\ bound[code[x].a] = q}
CallsTo(q) == {x \in TransfersTo(q) : code[x].op = "call"}

\* The call in the handler code: the finally block, then the rethrow.
HandlerSites(q) ==
    {x \in CallsTo(q) : x + 2 \in DOMAIN code /\ code[x + 1].op = "push_eax"
                            /\ code[x + 2].op = "CallRuntime_kReThrow"}

\* The calls in the code of a break, continue or return that leaves the try
\* block of f.
JumpsLeaving(f) ==
    {i \in DOMAIN jumps : \E k \in DOMAIN jumps[i].exits :
          jumps[i].exits[k].kind = "TryFinally" /\ jumps[i].exits[k].stmt = f}
ExitSites(q, f) ==
    {x \in CallsTo(q) : \E i \in JumpsLeaving(f) : jumps[i].start <= x /\ x <= jumps[i].end}

\* The call after the try block has completed.
NormalSites(q, f) == (CallsTo(q) \ HandlerSites(q)) \ ExitSites(q, f)

\* The finally block of f is emitted once; nothing falls into it and the only
\* transfers to it are calls: one in the handler code, one after the try
\* block's handler is popped, and one per jump that leaves the try block,
\* also after the handler is popped.
EmittedOnceAndCalled(f) ==
    /\ Cardinality(EntriesOf(f)) = 1
    /\ LET q == CHOOSE x \in EntriesOf(f) : TRUE IN
         /\ q > 1 /\ code[q - 1].op = "CallRuntime_kReThrow"
         /\ TransfersTo(q) = CallsTo(q)
         /\ Cardinality(HandlerSites(q)) = 1
         /\ Cardinality(NormalSites(q, f)) = 1
         /\ Cardinality(ExitSites(q, f)) = Cardinality(JumpsLeaving(f))
         /\ \A x \in NormalSites(q, f) \cup ExitSites(q, f) :
                x > 1 /\ code[x - 1].op = "PopTryHandler"

\* The jumps that leave the finally block of f.
LeavesFinallyOf(j, f) == \E k \in DOMAIN Crossed(j) : Crossed(j)[k] = Scope("Finally", f)

\* C7: the finally body is emitted once and is entered only by a call from
\* the three sites; when it returns, control is where the call that entered
\* it returns to; and a break, continue or return executed by the finally
\* body arrives at its own target without the body ever returning to the
\* caller of that entry.
C7_FinallyCalledFromThreeSites ==
    /\ status # "idle" => \A f \in TryFinallyIds : EmittedOnceAndCalled(f)
    /\ (status = "running" /\ pc \in DOMAIN code /\ code[pc].op = "EnterFinallyBlock") =>
           /\ stack # <<>> /\ Top(1).t = "ret"
           /\ Top(1).v - 1 \in CallsTo(pc)
    /\ (trace # <<>> /\ trace[Len(trace)].e = "leave") =>
           LET k == Len(trace)
               f == trace[k].id
               m == LastBefore("finally", f, k)
           IN /\ m > 0 /\ trace[m].v = trace[k].v
              /\ \A i \in (m + 1)..(k - 1) :
                     trace[i].e = "arrive" => ~LeavesFinallyOf(JumpOf(trace[i].id), f)

\* A finally block entered from the handler code executes a jump of its own,
\* which has arrived.
C7_Witness ==
    /\ JustArrived
    /\ \E f \in TryFinallyIds :
           /\ LeavesFinallyOf(JumpOf(trace[Len(trace)].id), f)
           /\ LET m == LastBefore("finally", f, Len(trace))
              IN m > 0 /\ code[trace[m].v].op = "push_eax"

(***************************************************************************)
(* The language's meaning of the expressions of the model, to compare the  *)
(* emitted code with.                                                      *)
(***************************************************************************)

\* The value of an expression and the assignments made in evaluating it, in
\* order, each as <<id of the assignment, value stored>>; the assignments
\* are plain ones.
RECURSIVE Eval(_)
Eval(e) ==
    CASE e.t = "Literal" -> [v |-> e.v, stores |-> <<>>]
      [] e.t = "Assignment" ->
             LET r == Eval(ValueOf(e))
             IN [v |-> r.v, stores |-> Append(r.stores, <<e.id, r.v>>)]
      [] e.t = "Conditional" ->
             LET c == Eval(e.kids[1])
                 r == Eval(IF Truthy(c.v) THEN e.kids[2] ELSE e.kids[3])
             IN [v |-> r.v, stores |-> c.stores \o r.stores]
      [] e.t = "BinaryOperation" ->
             LET l == Eval(e.kids[1])
                 r == Eval(e.kids[2])
             IN IF (e.op = "OR") = Truthy(l.v) THEN l
                ELSE [v |-> r.v, stores |-> l.stores \o r.stores]

IsStore(x) == x.e = "store"
RECURSIVE StoresOf(_)
StoresOf(events) ==
    IF events = <<>> THEN <<>>
    ELSE (IF IsStore(Head(events)) THEN <<<<Head(events).id, Head(events).v>>>> ELSE <<>>)
             \o StoresOf(Tail(events))

\* The operations between the first and the last instruction of a compiled
\* jump leave the result register alone.
ExitCodePreservesResult(j) ==
    \A q \in j.start..(j.end - 1) : code[q].op \in {"add_esp", "PopTryHandler", "call"}

\* C8: the result register when a break, continue or return arrives is what
\* it was when its exit actions began; for "return e" that is the value of
\* e, and it is the value the function returns.  The exit actions are
\* emitted from operations that do not write the result register.  An
\* exception rethrown after a finally block is the one that was dispatched
\* to the handler whose code rethrows it.
C8_ValueInFlightPreserved ==
    /\ status # "idle" => \A i \in DOMAIN jumps : ExitCodePreservesResult(jumps[i])
    /\ JustArrived =>
           LET k == Len(trace)
               j == JumpOf(trace[k].id)
               m == LastBefore("jump", j.stmt, k)
           IN /\ m > 0 /\ trace[k].v = trace[m].v
              /\ j.kind = "return" =>
                     /\ status = "returned" /\ eax = trace[m].v
                     /\ eax = Eval(NodeById(j.stmt).kids[1]).v
    /\ \A k \in DOMAIN trace :
           trace[k].e = "rethrow" =>
               LET m == LastBefore("dispatch", trace[k].id - 2, k)
               IN m > 0 /\ trace[m].v = trace[k].v

\* "return 3" in a try block has returned 3 although the finally block that
\* ran on the way out left another value in the result register.
C8_Witness ==
    /\ JustArrived /\ status = "returned"
    /\ LET k == Len(trace)
           j == JumpOf(trace[k].id)
           m == LastBefore("jump", j.stmt, k)
       IN /\ j.kind = "return" /\ CrossedTries(j) # <<>>
          /\ \E i \in (m + 1)..(k - 1) : trace[i].e = "store" /\ trace[i].v # eax

(***************************************************************************)
(* The logical operations.                                                 *)
(***************************************************************************)

IsLogical(e) == e.t = "BinaryOperation"

\* The run of the function is over.
Finished == status \in {"returned", "uncaught"}

\* The function is "return e" or "throw e": e is in a value context, with
\* the accumulator or the stack as location.
ValueProgram ==
    /\ Len(prog) = 1
    /\ \/ prog[1].t = "ReturnStatement"
       \/ prog[1].t = "ExpressionStatement" /\ prog[1].kids[1].t = "Throw"
ValueExpression ==
    IF prog[1].t = "ReturnStatement" THEN prog[1].kids[1] ELSE prog[1].kids[1].kids[1]

\* C9: a && b in a value context: when a is falsy the result is a's value
\* and nothing of b has been executed; when a is truthy the result is b's
\* value and b has been executed once, after a.
C9_AndInValueContext ==
    (ValueProgram /\ IsLogical(ValueExpression) /\ ValueExpression.op = "AND" /\ Finished) =>
        LET a == Eval(ValueExpression.kids[1])
            b == Eval(ValueExpression.kids[2])
        IN /\ status = (IF prog[1].t = "ReturnStatement" THEN "returned" ELSE "uncaught")
           /\ IF Truthy(a.v)
              THEN eax = b.v /\ StoresOf(trace) = a.stores \o b.stores
              ELSE eax = a.v /\ StoresOf(trace) = a.stores

\* (x = 1) && (y = 2) has yielded 2 with both assignments made.
C9_Witness ==
    /\ ValueProgram /\ IsLogical(ValueExpression) /\ ValueExpression.op = "AND" /\ Finished
    /\ ValueExpression.kids[1].t = "Assignment" /\ ValueExpression.kids[2].t = "Assignment"
    /\ eax = 2 /\ StoresOf(trace) = <<<<1, 1>>, <<3, 2>>>>

\* The function is one statement around a logical expression.
LogicalProgram ==
    /\ Len(prog) = 1
    /\ \/ ValueProgram /\ IsLogical(ValueExpression)
       \/ prog[1].t \in {"ExpressionStatement", "IfStatement"} /\ IsLogical(prog[1].kids[1])
LogicalExpression == IF ValueProgram THEN ValueExpression ELSE prog[1].kids[1]

\* What the statement around the logical expression e does after e.
StoresAfter(e) ==
    IF prog[1].t = "IfStatement"
    THEN IF Truthy(Eval(e).v) THEN <<<<21, 1>>>> ELSE <<<<31, 2>>>>
    ELSE <<>>

\* C10: in every context the right operand of a logical operation is
\* compiled under the context, location and labels of the operation, its
\* code begins at eval_right and is not fallen into; and the emitted code
\* executes the right operand of || exactly when the left is falsy (of &&
\* when it is truthy), yielding in a value context the left operand's value
\* when the right is skipped.
C10_RightOperandOnlyWhenNeeded ==
    /\ status # "idle" =>
           \A i \in DOMAIN logical :
               LET r == logical[i] IN
               /\ r.right_context = r.context_ /\ r.right_location = r.location_
               /\ r.right_true = r.true_label_ /\ r.right_false = r.false_label_
               /\ bound[r.eval_right] = r.right_from
               /\ r.right_from > 1 /\ code[r.right_from - 1].op = "jmp"
    /\ (LogicalProgram /\ Finished) =>
           LET e == LogicalExpression IN
           /\ StoresOf(trace) = Eval(e).stores \o StoresAfter(e)
           /\ ValueProgram => eax = Eval(e).v

\* ((x = 0) || (y = 2)) && (z = 1) has returned 1: the || was compiled in a
\* test/value context and has made both its assignments.
C10_Witness ==
    /\ LogicalProgram /\ status = "returned"
    /\ \E i \in DOMAIN logical : logical[i].op = "OR" /\ logical[i].context_ = "kTestValue"
    /\ StoresOf(trace) = <<<<1, 0>>, <<3, 2>>, <<5, 1>>>>
    /\ eax = 1

(***************************************************************************)
(* Part III.  The minor key of the RecordWriteStub                         *)
(* (src/src/ia32/macro-assembler-ia32.cc).  Specification SpecKey: stubs   *)
(* are constructed for any three register codes that fit the key's fields. *)
(***************************************************************************)

\* The size of each of the three fields of the key.
kRegisterFieldSize == 4

\* class ScratchBits / AddressBits / ObjectBits: BitField<uint32_t, shift, size>.
ScratchBits == [shift |-> 0, size |-> kRegisterFieldSize]
AddressBits == [shift |-> 4, size |-> kRegisterFieldSize]
ObjectBits == [shift |-> 8, size |-> kRegisterFieldSize]

\* a | b on unsigned integers.
RECURSIVE BitOr(_, _)
BitOr(a, b) ==
    IF a = 0 THEN b
    ELSE IF b = 0 THEN a
    ELSE (IF a % 2 = 1 \/ b % 2 = 1 THEN 1 ELSE 0) + 2 * BitOr(a \div 2, b \div 2)

\* BitField::encode: static_cast<uint32_t>(value) << shift.  No bit is shifted
\* out of the 32: the register codes are below 2^5 and the shifts at most 8.
BitFieldEncode(field, value) == value * 2^field.shift

\* BitField::decode: (value >> shift) & ((1 << size) - 1).
BitFieldDecode(field, value) == (value \div 2^field.shift) % 2^field.size

\* BitField::is_valid: the value fits the field.
BitFieldIsValid(field, value) == value \in 0..(2^field.size - 1)

\* A plausible defect: the address register is encoded in the scratch field.
MinorKeyWithOverlappingFields(object, addr, scratch) ==
    BitOr(BitOr(BitFieldEncode(ObjectBits, object), BitFieldEncode(ScratchBits, addr)),
          BitFieldEncode(ScratchBits, scratch))

\* RecordWriteStub::MinorKey.
MinorKey(object, addr, scratch) ==
    BitOr(BitOr(BitFieldEncode(ObjectBits, object), BitFieldEncode(AddressBits, addr)),
          BitFieldEncode(ScratchBits, scratch))

\* Register::code() of the registers a stub can be constructed for: the codes
\* that fit a field of the key.
RegisterCodes == {r \in 0..(2^kRegisterFieldSize) : BitFieldIsValid(ScratchBits, r)}

\* RecordWriteStub stub(object, addr, scratch): a stub whose key has not been
\* asked for yet.
RecordWriteStubs ==
    [object : RegisterCodes, addr : RegisterCodes, scratch : RegisterCodes, minor : {-1}]

InitKey ==
    /\ CacheEmpty /\ NoFunction /\ NoCheck /\ NoStubGeneration
    /\ record_write \in RecordWriteStubs

\* stub.MinorKey(), as GetKey calls it.
CallMinorKey ==
    /\ record_write.minor = -1
    /\ record_write' = [record_write EXCEPT
           !.minor = MinorKey(record_write.object, record_write.addr, record_write.scratch)]
    /\ UNCHANGED <<stubVars, cgVars, gateVars, masmVars>>

NextKey == CallMinorKey

SpecKey == InitKey /\ [][NextKey]_vars

\* The minor keys of all stubs, by register codes.
MinorKeys ==
    [object \in RegisterCodes |-> [addr \in RegisterCodes |-> [scratch \in RegisterCodes |->
        MinorKey(object, addr, scratch)]]]

\* C20: the minor key of a RecordWriteStub is that of no stub with another
\* triple of registers, for all register codes 0..15; each register can be
\* read back from its field of the key, and the key is below 2^12.
C20_MinorKeyInjective ==
    record_write.minor # -1 =>
        /\ \A object \in RegisterCodes, addr \in RegisterCodes, scratch \in RegisterCodes :
               MinorKeys[object][addr][scratch] = record_write.minor
                   => /\ object = record_write.object
                      /\ addr = record_write.addr
                      /\ scratch = record_write.scratch
        /\ BitFieldDecode(ObjectBits, record_write.minor) = record_write.object
        /\ BitFieldDecode(AddressBits, record_write.minor) = record_write.addr
        /\ BitFieldDecode(ScratchBits, record_write.minor) = record_write.scratch
        /\ record_write.minor \in 0..(2^12 - 1)
        /\ RegisterCodes = 0..15

\* The stub of the registers with codes 15, 0 and 15: its key uses the top
\* bit of the twelve, and the stub of 0, 15 and 15 has another key.
C20_Witness ==
    /\ record_write.object = 15 /\ record_write.addr = 0 /\ record_write.scratch = 15
    /\ record_write.minor = 3855
    /\ MinorKeys[0][15][15] = 255

(***************************************************************************)
(* Part IV.  The syntax checker (FullCodeGenSyntaxChecker,                 *)
(* src/src/full-codegen.cc).  Specification SpecGate.                      *)
(*                                                                         *)
(* IV.1  The nodes are read as in II.1.                                    *)
(***************************************************************************)

(***************************************************************************)
(* IV.2  The visitors.  The checker's state is has_supported_syntax_; the  *)
(* nodes visited are listed in order, each with the value the flag had     *)
(* when the node was visited; unreachable tells that an UNREACHABLE() was  *)
(* executed.                                                               *)
(***************************************************************************)

\* always_fast_compiler is FLAG_always_fast_compiler.
NewSyntaxChecker(always_fast_compiler) ==
    [has_supported_syntax_ |-> TRUE, visited |-> <<>>, unreachable |-> FALSE,
     always_fast_compiler |-> always_fast_compiler]

\* BAILOUT(reason): the flag is cleared and the visitor returns.
BAILOUT(st) == [st EXCEPT !.has_supported_syntax_ = FALSE]

RECURSIVE SyntaxChecker_Visit(_, _)

\* The loops "Visit(list->at(i)); CHECK_BAILOUT;" of VisitDeclarations,
\* VisitStatements, VisitCall, VisitCallNew and VisitCallRuntime.
RECURSIVE SyntaxChecker_VisitEach(_, _)
SyntaxChecker_VisitEach(nodes, st) ==
    IF nodes = <<>> THEN st
    ELSE LET s1 == SyntaxChecker_Visit(Head(nodes), st)
         IN IF ~s1.has_supported_syntax_ THEN s1
            ELSE SyntaxChecker_VisitEach(Tail(nodes), s1)

\* A plausible defect: only the first statement of a list is checked.
SyntaxChecker_VisitStatementsFirstOnly(stmts, st) ==
    IF stmts = <<>> THEN st ELSE SyntaxChecker_Visit(Head(stmts), st)

\* FullCodeGenSyntaxChecker::VisitDeclarations and ::VisitStatements.
SyntaxChecker_VisitDeclarations(decls, st) == SyntaxChecker_VisitEach(decls, st)
SyntaxChecker_VisitStatements(stmts, st) == SyntaxChecker_VisitEach(stmts, st)

\* FullCodeGenSyntaxChecker::VisitDeclaration.
SyntaxChecker_VisitDeclaration(decl, st) ==
    LET prop == AsProperty(decl.kids[1])
        s1 == IF prop.t # "NULL"
              THEN SyntaxChecker_Visit(prop.kids[2], SyntaxChecker_Visit(prop.kids[1], st))
              ELSE st
    IN IF decl.kids[2].t # "NULL" THEN SyntaxChecker_Visit(decl.kids[2], s1) ELSE s1

\* The visitors of one sub-node: VisitExpressionStatement, VisitReturnStatement,
\* VisitWithEnterStatement and VisitThrow.
SyntaxChecker_VisitOnly(node, st) == SyntaxChecker_Visit(node.kids[1], st)

\* The visitors of two sub-nodes with CHECK_BAILOUT between them:
\* VisitTryCatchStatement, VisitTryFinallyStatement, VisitCatchExtensionObject,
\* VisitProperty, VisitBinaryOperation and VisitCompareOperation.
SyntaxChecker_VisitPair(node, st) ==
    LET s1 == SyntaxChecker_Visit(node.kids[1], st)
    IN IF ~s1.has_supported_syntax_ THEN s1 ELSE SyntaxChecker_Visit(node.kids[2], s1)

\* FullCodeGenSyntaxChecker::VisitIfStatement and ::VisitConditional.
SyntaxChecker_VisitIfStatement(stmt, st) ==
    LET s1 == SyntaxChecker_Visit(stmt.kids[1], st) IN
    IF ~s1.has_supported_syntax_ THEN s1
    ELSE LET s2 == SyntaxChecker_Visit(stmt.kids[2], s1) IN
         IF ~s2.has_supported_syntax_ THEN s2
         ELSE SyntaxChecker_Visit(stmt.kids[3], s2)

\* A plausible defect: the body of the loop is not checked.
SyntaxChecker_VisitWhileStatementCondOnly(stmt, st) ==
    SyntaxChecker_Visit(stmt.kids[1], st)

\* FullCodeGenSyntaxChecker::VisitWhileStatement (and ::VisitDoWhileStatement,
\* which has the same body).
SyntaxChecker_VisitWhileStatement(stmt, st) ==
    LET s1 == SyntaxChecker_Visit(stmt.kids[1], st)
    IN IF ~s1.has_supported_syntax_ THEN s1 ELSE SyntaxChecker_Visit(stmt.kids[2], s1)

\* FullCodeGenSyntaxChecker::VisitForStatement; the sub-nodes are init, cond,
\* next and body.  The flag is tested after init and after cond only where
\* there is one, and before next only where there is one.
SyntaxChecker_VisitForStatement(stmt, st) ==
    IF ~st.always_fast_compiler THEN BAILOUT(st)
    ELSE LET s1 == IF stmt.kids[1].t # "NULL" THEN SyntaxChecker_Visit(stmt.kids[1], st) ELSE st IN
         IF stmt.kids[1].t # "NULL" /\ ~s1.has_supported_syntax_ THEN s1
         ELSE LET s2 == IF stmt.kids[2].t # "NULL" THEN SyntaxChecker_Visit(stmt.kids[2], s1) ELSE s1 IN
              IF stmt.kids[2].t # "NULL" /\ ~s2.has_supported_syntax_ THEN s2
              ELSE LET s3 == SyntaxChecker_Visit(stmt.kids[4], s2) IN
                   IF stmt.kids[3].t = "NULL" \/ ~s3.has_supported_syntax_ THEN s3
                   ELSE SyntaxChecker_Visit(stmt.kids[3], s3)

\* A plausible defect: the visitor sets the flag from the variable at hand.
SyntaxChecker_VisitVariableProxySettingFlag(expr, st) ==
    [st EXCEPT !.has_supported_syntax_ = is_global(expr.op) \/ slot_type(expr.op) # "LOOKUP"]

\* FullCodeGenSyntaxChecker::VisitVariableProxy.
SyntaxChecker_VisitVariableProxy(expr, st) ==
    IF ~is_global(expr.op) /\ slot_type(expr.op) = "LOOKUP" THEN BAILOUT(st) ELSE st

\* FullCodeGenSyntaxChecker::VisitObjectLiteral: the properties that are
\* compile-time values are skipped; of the others the key and the value are
\* visited.
RECURSIVE SyntaxChecker_VisitObjectLiteral(_, _)
SyntaxChecker_VisitObjectLiteral(properties, st) ==
    IF properties = <<>> THEN st
    ELSE IF IsCompileTimeValue(Head(properties))
    THEN SyntaxChecker_VisitObjectLiteral(Tail(properties), st)
    ELSE LET s1 == SyntaxChecker_Visit(Head(properties).kids[1], st) IN
         IF ~s1.has_supported_syntax_ THEN s1
         ELSE LET s2 == SyntaxChecker_Visit(Head(properties).kids[2], s1) IN
              IF ~s2.has_supported_syntax_ THEN s2
              ELSE SyntaxChecker_VisitObjectLiteral(Tail(properties), s2)

\* FullCodeGenSyntaxChecker::VisitArrayLiteral: the literals and the
\* compile-time values among the values are skipped.
RECURSIVE SyntaxChecker_VisitArrayLiteral(_, _)
SyntaxChecker_VisitArrayLiteral(subexprs, st) ==
    IF subexprs = <<>> THEN st
    ELSE IF Head(subexprs).t = "Literal" THEN SyntaxChecker_VisitArrayLiteral(Tail(subexprs), st)
    ELSE IF CompileTimeValue_IsCompileTimeValue(Head(subexprs))
    THEN SyntaxChecker_VisitArrayLiteral(Tail(subexprs), st)
    ELSE LET s1 == SyntaxChecker_Visit(Head(subexprs), st)
         IN IF ~s1.has_supported_syntax_ THEN s1
            ELSE SyntaxChecker_VisitArrayLiteral(Tail(subexprs), s1)

\* FullCodeGenSyntaxChecker::VisitAssignment.
SyntaxChecker_VisitAssignment(expr, st) ==
    LET var == AsVariable(TargetOf(expr))
        prop == AsProperty(TargetOf(expr))
    IN IF expr.op = "INIT_CONST" THEN BAILOUT(st)
       ELSE IF var # ""
       THEN IF mode(var) = "CONST" THEN BAILOUT(st)
            ELSE IF ~is_global(var) /\ slot_type(var) = "LOOKUP" THEN BAILOUT(st)
            ELSE SyntaxChecker_Visit(ValueOf(expr), st)
       ELSE IF prop.t # "NULL"
       THEN LET s1 == SyntaxChecker_Visit(prop.kids[1], st) IN
            IF ~s1.has_supported_syntax_ THEN s1
            ELSE LET s2 == SyntaxChecker_Visit(prop.kids[2], s1) IN
                 IF ~s2.has_supported_syntax_ THEN s2
                 ELSE SyntaxChecker_Visit(ValueOf(expr), s2)
       ELSE BAILOUT(st)

\* FullCodeGenSyntaxChecker::VisitCall.  After Visit(fun) of the last branch
\* there is no CHECK_BAILOUT: the loop over the arguments is entered.
SyntaxChecker_VisitCall(expr, st) ==
    LET fun == expr.kids[1]
        args == Tail(expr.kids)
        var == AsVariable(fun)
        prop == AsProperty(fun)
    IN IF var # "" /\ is_possibly_eval(var) THEN BAILOUT(st)
       ELSE IF var # "" /\ ~is_this(var) /\ is_global(var)
       THEN SyntaxChecker_VisitEach(args, st)
       ELSE IF var # "" /\ slot_type(var) = "LOOKUP" THEN BAILOUT(st)
       ELSE IF prop.t # "NULL"
       THEN LET s1 == SyntaxChecker_Visit(prop.kids[1], st) IN
            IF ~s1.has_supported_syntax_ THEN s1
            ELSE LET s2 == SyntaxChecker_Visit(prop.kids[2], s1) IN
                 IF ~s2.has_supported_syntax_ THEN s2
                 ELSE SyntaxChecker_VisitEach(args, s2)
       ELSE SyntaxChecker_VisitEach(args, SyntaxChecker_Visit(fun, st))

\* FullCodeGenSyntaxChecker::VisitCallNew.
SyntaxChecker_VisitCallNew(expr, st) ==
    LET s1 == SyntaxChecker_Visit(expr.kids[1], st)
    IN IF ~s1.has_supported_syntax_ THEN s1
       ELSE SyntaxChecker_VisitEach(Tail(expr.kids), s1)

\* FullCodeGenSyntaxChecker::VisitCallRuntime; the op of the node tells
\* whether the name begins with '_' and is found by FindInlineRuntimeLUT.
SyntaxChecker_VisitCallRuntime(expr, st) ==
    IF expr.op = "inline" THEN BAILOUT(st)
    ELSE SyntaxChecker_VisitEach(expr.kids, st)

\* A plausible defect: the unary ~ is taken for supported.
SyntaxChecker_VisitUnaryOperationWithBitNot(expr, st) ==
    CASE expr.op \in {"VOID", "NOT", "TYPEOF", "BIT_NOT"} -> SyntaxChecker_Visit(expr.kids[1], st)
      [] expr.op \in {"DELETE", "ADD", "SUB"} -> BAILOUT(st)
      [] OTHER -> BAILOUT([st EXCEPT !.unreachable = TRUE])

\* FullCodeGenSyntaxChecker::VisitUnaryOperation.
SyntaxChecker_VisitUnaryOperation(expr, st) ==
    CASE expr.op \in {"VOID", "NOT", "TYPEOF"} -> SyntaxChecker_Visit(expr.kids[1], st)
      [] expr.op \in {"BIT_NOT", "DELETE", "ADD", "SUB"} -> BAILOUT(st)
      [] OTHER -> BAILOUT([st EXCEPT !.unreachable = TRUE])

\* FullCodeGenSyntaxChecker::VisitCountOperation.
SyntaxChecker_VisitCountOperation(expr, st) ==
    LET var == AsVariable(expr.kids[1])
        prop == AsProperty(expr.kids[1])
    IN IF var # ""
       THEN IF ~is_global(var) /\ slot_type(var) = "LOOKUP" THEN BAILOUT(st) ELSE st
       ELSE IF prop.t # "NULL"
       THEN LET s1 == SyntaxChecker_Visit(prop.kids[1], st) IN
            IF ~s1.has_supported_syntax_ THEN s1
            ELSE SyntaxChecker_Visit(prop.kids[2], s1)
       ELSE BAILOUT(st)

\* AstVisitor::Visit and the node's Accept: the visitor of the node's type.
\* The visitors with an empty body ("Supported.") leave the state alone.
SyntaxChecker_Visit(node, st0) ==
    LET st == [st0 EXCEPT !.visited =
                   Append(@, [node |-> node, ok |-> st0.has_supported_syntax_])]
    IN CASE node.t = "Declaration" -> SyntaxChecker_VisitDeclaration(node, st)
         [] node.t = "Block" -> SyntaxChecker_VisitStatements(node.kids, st)
         [] node.t \in {"ExpressionStatement", "ReturnStatement", "WithEnterStatement", "Throw"} ->
                SyntaxChecker_VisitOnly(node, st)
         [] node.t \in {"EmptyStatement", "ContinueStatement", "BreakStatement",
                        "WithExitStatement", "DebuggerStatement", "FunctionLiteral",
                        "Literal", "RegExpLiteral", "ThisFunction"} -> st
         [] node.t \in {"IfStatement", "Conditional"} -> SyntaxChecker_VisitIfStatement(node, st)
         [] node.t \in {"SwitchStatement", "ForInStatement", "FunctionBoilerplateLiteral"} ->
                BAILOUT(st)
         [] node.t \in {"DoWhileStatement", "WhileStatement"} ->
                SyntaxChecker_VisitWhileStatement(node, st)
         [] node.t = "ForStatement" -> SyntaxChecker_VisitForStatement(node, st)
         [] node.t \in {"TryCatchStatement", "TryFinallyStatement", "CatchExtensionObject",
                        "Property", "BinaryOperation", "CompareOperation"} ->
                SyntaxChecker_VisitPair(node, st)
         [] node.t = "VariableProxy" -> SyntaxChecker_VisitVariableProxy(node, st)
         [] node.t = "ObjectLiteral" -> SyntaxChecker_VisitObjectLiteral(node.kids, st)
         [] node.t = "ArrayLiteral" -> SyntaxChecker_VisitArrayLiteral(node.kids, st)
         [] node.t = "Assignment" -> SyntaxChecker_VisitAssignment(node, st)
         [] node.t = "Call" -> SyntaxChecker_VisitCall(node, st)
         [] node.t = "CallNew" -> SyntaxChecker_VisitCallNew(node, st)
         [] node.t = "CallRuntime" -> SyntaxChecker_VisitCallRuntime(node, st)
         [] node.t = "UnaryOperation" -> SyntaxChecker_VisitUnaryOperation(node, st)
         [] node.t = "CountOperation" -> SyntaxChecker_VisitCountOperation(node, st)
         [] OTHER -> BAILOUT([st EXCEPT !.unreachable = TRUE])

\* A function as the checker sees it: the scope's number of heap slots, the
\* slot type of each parameter ("NULL" for a parameter without a slot), the
\* scope's declarations, and the body.
FunctionLiteral(num_heap_slots, parameters, declarations, body) ==
    [num_heap_slots |-> num_heap_slots, parameters |-> parameters,
     declarations |-> declarations, body |-> body]

\* FullCodeGenSyntaxChecker::Check.
SyntaxChecker_Check(fun, always_fast_compiler) ==
    LET st == NewSyntaxChecker(always_fast_compiler) IN
    IF fun.num_heap_slots > 0 /\ \E i \in DOMAIN fun.parameters : fun.parameters[i] = "CONTEXT"
    THEN BAILOUT(st)
    ELSE LET s1 == SyntaxChecker_VisitDeclarations(fun.declarations, st)
         IN IF ~s1.has_supported_syntax_ THEN s1
            ELSE SyntaxChecker_VisitStatements(fun.body, s1)

(***************************************************************************)
(* IV.3  The functions checked: one statement built from one or two        *)
(* expressions, each of them supported or not, followed by a supported     *)
(* statement; and functions with declarations and parameters.              *)
(***************************************************************************)

\* Expressions with the ids b .. b + 2 that the checker supports.
SupportedExpressions(b) ==
    {Literal(b, 1), VariableProxy(b, "local"), VariableProxy(b, "global"),
     VariableProxy(b, "context"), VariableProxy(b, "this"), Leaf("ThisFunction", b),
     Leaf("FunctionLiteral", b), Leaf("RegExpLiteral", b),
     RewrittenParameter(b, VariableProxy(b + 1, "local"), Literal(b + 2, 0)),
     UnaryOperation(b, "NOT", Literal(b + 1, 0)),
     Call(b, VariableProxy(b + 1, "global"), <<Literal(b + 2, 1)>>),
     AssignmentTo(b, "ASSIGN", VariableProxy(b + 1, "parameter"), Literal(b + 2, 1)),
     AssignmentTo(b, "ASSIGN_ADD", VariableProxy(b + 1, "global"), Literal(b + 2, 1)),
     CountOperation(b, VariableProxy(b + 1, "global")),
     CallRuntime(b, "runtime", <<Literal(b + 1, 1)>>)}

\* Expressions with the ids b .. b + 2 that are on the checker's list.
UnsupportedExpressions(b) ==
    {VariableProxy(b, "lookup"),
     AssignmentTo(b, "INIT_CONST", VariableProxy(b + 1, "local_const"), Literal(b + 2, 1)),
     AssignmentTo(b, "ASSIGN", VariableProxy(b + 1, "local_const"), Literal(b + 2, 1)),
     AssignmentTo(b, "ASSIGN", VariableProxy(b + 1, "global_const"), Literal(b + 2, 1)),
     AssignmentTo(b, "ASSIGN", VariableProxy(b + 1, "lookup"), Literal(b + 2, 1)),
     AssignmentTo(b, "ASSIGN", Literal(b + 1, 2), Literal(b + 2, 1)),
     CountOperation(b, VariableProxy(b + 1, "lookup")),
     CountOperation(b, Literal(b + 1, 2)),
     Call(b, VariableProxy(b + 1, "eval"), <<Literal(b + 2, 1)>>),
     Call(b, VariableProxy(b + 1, "lookup"), <<Literal(b + 2, 1)>>),
     UnaryOperation(b, "BIT_NOT", Literal(b + 1, 1)),
     UnaryOperation(b, "DELETE", VariableProxy(b + 1, "local")),
     UnaryOperation(b, "ADD", Literal(b + 1, 1)),
     UnaryOperation(b, "SUB", VariableProxy(b + 1, "parameter")),
     Leaf("FunctionBoilerplateLiteral", b),
     CallRuntime(b, "inline", <<Literal(b + 1, 1)>>)}

Expressions(b) == SupportedExpressions(b) \cup UnsupportedExpressions(b)

\* The expressions with two sub-expressions x and y.
ExpressionsOf(x, y) ==
    {Property(1, x, y), BinaryOperation(1, "OR", x, y), CompareOperation(1, x, y),
     CatchExtensionObject(1, x, y), Conditional(1, x, y, Literal(2, 0)),
     Conditional(1, Literal(2, 0), x, y),
     AssignmentTo(1, "ASSIGN", Property(2, x, Literal(3, 0)), y),
     AssignmentTo(1, "ASSIGN", Property(2, Literal(3, 0), x), y),
     Call(1, x, <<y>>), Call(1, Property(2, x, Literal(3, 0)), <<y>>),
     Call(1, VariableProxy(2, "global"), <<x, y>>),
     CallNew(1, x, <<y>>), CallNew(1, Literal(2, 0), <<x, y>>),
     CallRuntime(1, "runtime", <<x, y>>),
     ArrayLiteral(1, <<x, Literal(2, 0), y>>),
     ArrayLiteral(1, <<SimpleArrayLiteral(2, <<Literal(3, 0)>>), x, y>>),
     ArrayLiteral(1, <<x, SimpleObjectLiteral(2, <<ObjectLiteralProperty("CONSTANT", Literal(3, 0),
                                                                        Literal(5, 1))>>), y>>),
     ObjectLiteral(1, <<ObjectLiteralProperty("COMPUTED", Literal(2, 0), x),
                        ObjectLiteralProperty("CONSTANT", Literal(3, 0), Literal(5, 1)),
                        ObjectLiteralProperty("COMPUTED", Literal(6, 0), y)>>),
     ObjectLiteral(1, <<ObjectLiteralProperty("MATERIALIZED_LITERAL", Literal(2, 0),
                                              SimpleArrayLiteral(3, <<Literal(5, 0)>>)),
                        ObjectLiteralProperty("MATERIALIZED_LITERAL", Literal(6, 0),
                                              ArrayLiteral(7, <<x, y>>))>>),
     CountOperation(1, Property(2, x, y)),
     UnaryOperation(1, "TYPEOF", BinaryOperation(2, "AND", x, y))}

Supported(id) == ExpressionStatement(id, Literal(id + 1, 1))

\* The statements with two sub-expressions x and y.
StatementsOf(x, y) ==
    {ExpressionStatement(4, e) : e \in ExpressionsOf(x, y)}
        \cup {IfStatement(4, x, ExpressionStatement(5, y), EmptyStatement(6)),
              IfStatement(4, Literal(7, 1), ExpressionStatement(5, x), ExpressionStatement(6, y)),
              WhileStatement(4, x, ExpressionStatement(5, y)),
              DoWhileStatement(4, x, ExpressionStatement(5, y)),
              ForStatement(4, ExpressionStatement(5, x), y, NullNode, EmptyStatement(6)),
              ForStatement(4, NullNode, NullNode, ExpressionStatement(5, y), ExpressionStatement(6, x)),
              ForStatement(4, NullNode, x, NullNode, ExpressionStatement(6, y)),
              TryCatchStatement(4, 3, Block(5, <<ExpressionStatement(6, x)>>),
                                Block(7, <<ExpressionStatement(8, y)>>)),
              TryFinallyStatement(4, Block(5, <<ExpressionStatement(6, x)>>),
                                  Block(7, <<ExpressionStatement(8, y)>>)),
              Block(4, <<ExpressionStatement(5, x), ExpressionStatement(6, y)>>),
              Block(4, <<ReturnStatement(5, x), WithEnterStatement(6, y)>>),
              Block(4, <<ExpressionStatement(5, Throw(6, x)), Leaf("SwitchStatement", 7),
                         ExpressionStatement(8, y)>>),
              Block(4, <<Leaf("WithExitStatement", 5), Leaf("ForInStatement", 6),
                         ExpressionStatement(7, x), ExpressionStatement(8, y)>>),
              Block(4, <<ExpressionStatement(5, x), Leaf("DebuggerStatement", 6),
                         ContinueStatement(7, 0), BreakStatement(8, 0),
                         ExpressionStatement(9, y)>>)}

\* The declarations of a scope: of a global variable, of a global function,
\* of a variable that is not allocated at compile time, and of a variable
\* that is also a parameter rewritten to a property of the arguments object.
Declarations(b) ==
    {Declaration(b, VariableProxy(b + 1, "global"), NullNode),
     Declaration(b, VariableProxy(b + 1, "global"), Leaf("FunctionLiteral", b + 2)),
     Declaration(b, VariableProxy(b + 1, "lookup"), NullNode),
     Declaration(b, RewrittenParameter(b + 1, VariableProxy(b + 2, "context"), Literal(b + 3, 0)),
                 Leaf("FunctionLiteral", b + 4))}

\* Scopes: without and with heap slots, and parameters on the stack, without
\* a slot, and in the context (which takes a heap slot).
Scopes ==
    {[num_heap_slots |-> 0, parameters |-> <<>>],
     [num_heap_slots |-> 0, parameters |-> <<"PARAMETER", "NULL">>],
     [num_heap_slots |-> 1, parameters |-> <<"PARAMETER">>],
     [num_heap_slots |-> 2, parameters |-> <<"PARAMETER", "CONTEXT">>]}

\* The second expression of a statement: supported ones, and two of the
\* rejecting ones.
SecondExpressions(b) ==
    {Literal(b, 1), VariableProxy(b, "parameter"),
     VariableProxy(b, "lookup"), UnaryOperation(b, "SUB", VariableProxy(b + 1, "parameter"))}

\* A function about to be checked.
Unchecked(fun, always_fast_compiler) ==
    [fun |-> fun, always_fast_compiler |-> always_fast_compiler, done |-> FALSE,
     has_supported_syntax_ |-> TRUE, visited |-> <<>>, unreachable |-> FALSE]

InitGate ==
    /\ CacheEmpty /\ NoFunction /\ NoRecordWriteStub /\ NoStubGeneration
    /\ \E always_fast_compiler \in BOOLEAN :
           \/ \E x \in Expressions(10), y \in SecondExpressions(20) :
                  \E stmt \in StatementsOf(x, y) :
                      gate = Unchecked(FunctionLiteral(0, <<>>, <<>>, <<stmt, Supported(90)>>),
                                       always_fast_compiler)
           \/ \E sc \in Scopes, d1 \in Declarations(30), d2 \in Declarations(40),
                 x \in SecondExpressions(10) :
                  gate = Unchecked(FunctionLiteral(sc.num_heap_slots, sc.parameters, <<d1, d2>>,
                                                   <<ExpressionStatement(4, x), Supported(90)>>),
                                   always_fast_compiler)

\* checker.Check(fun): the flag is read by the caller when Check returns.
Check ==
    /\ ~gate.done
    /\ LET st == SyntaxChecker_Check(gate.fun, gate.always_fast_compiler)
       IN gate' = [gate EXCEPT !.done = TRUE,
                               !.has_supported_syntax_ = st.has_supported_syntax_,
                               !.visited = st.visited,
                               !.unreachable = st.unreachable]
    /\ UNCHANGED <<stubVars, cgVars, keyVars, masmVars>>

NextGate == Check

SpecGate == InitGate /\ [][NextGate]_vars

\* No input of the model runs into an UNREACHABLE() of the checker.
GateReachesNoUnreachable == gate # <<>> => ~gate.unreachable

\* C14: once the checker has cleared has_supported_syntax_, it visits no
\* further node: every node was visited while the flag was still set.
C14_NoVisitAfterRejection ==
    (gate # <<>> /\ gate.done) =>
        \A i \in DOMAIN gate.visited : gate.visited[i].ok

\* What the claim's list calls a rejecting construct.
IsVariable(expr) == expr.t = "VariableProxy" /\ expr.kids = <<>>
IsProperty(expr) == expr.t = "Property" \/ (expr.t = "VariableProxy" /\ expr.kids # <<>>)
RejectingConstruct(n, always_fast_compiler) ==
    \/ n.t \in {"SwitchStatement", "ForInStatement", "FunctionBoilerplateLiteral"}
    \/ n.t = "VariableProxy" /\ IsVariable(n) /\ n.op = "lookup"
    \/ /\ n.t = "Assignment"
       /\ \/ n.op = "INIT_CONST"
          \/ IsVariable(TargetOf(n)) /\ TargetOf(n).op \in {"local_const", "global_const", "lookup"}
          \/ ~IsVariable(TargetOf(n)) /\ ~IsProperty(TargetOf(n))
    \/ /\ n.t = "CountOperation"
       /\ \/ IsVariable(n.kids[1]) /\ n.kids[1].op = "lookup"
          \/ ~IsVariable(n.kids[1]) /\ ~IsProperty(n.kids[1])
    \/ n.t = "Call" /\ IsVariable(n.kids[1]) /\ n.kids[1].op \in {"eval", "lookup"}
    \/ n.t = "UnaryOperation" /\ n.op \in {"BIT_NOT", "DELETE", "ADD", "SUB"}
    \/ n.t = "CallRuntime" /\ n.op = "inline"
    \/ n.t = "ForStatement" /\ ~always_fast_compiler

\* A parameter of the function is allocated in the context.
ContextAllocatedParameter(fun) ==
    \E i \in DOMAIN fun.parameters : fun.parameters[i] = "CONTEXT"

\* The positions of the traversal at which a rejecting construct was met.
RejectionsMet ==
    {i \in DOMAIN gate.visited :
         RejectingConstruct(gate.visited[i].node, gate.always_fast_compiler)}

\* C15: Check leaves has_supported_syntax_ set exactly when the function has
\* no context-allocated parameter and the traversal has met none of the
\* rejecting constructs.
C15_AcceptsIffNoRejectingConstruct ==
    (gate # <<>> /\ gate.done) =>
        (gate.has_supported_syntax_
             <=> (~ContextAllocatedParameter(gate.fun) /\ RejectionsMet = {}))

\* A function was rejected for a single construct, a unary minus, met as the
\* eighth node or later; and the for statement around it was supported.
C15_Witness ==
    /\ gate # <<>> /\ gate.done /\ ~gate.has_supported_syntax_
    /\ gate.always_fast_compiler
    /\ Cardinality(RejectionsMet) = 1
    /\ \E i \in RejectionsMet :
           /\ i >= 5
           /\ gate.visited[i].node.t = "UnaryOperation" /\ gate.visited[i].node.op = "SUB"
    /\ gate.visited[1].node.t = "ForStatement"

(***************************************************************************)
(* IV.4  The nodes the code generator visits in a function that the        *)
(* checker has accepted.                                                   *)
(***************************************************************************)

\* The node types whose visitor of the code generator is UNREACHABLE().
UnreachableVisitors ==
    {"SwitchStatement", "ForInStatement", "FunctionBoilerplateLiteral", "Slot"}

\* The nodes of a list that are not NULL.
NotNull(nodes) == SelectSeq(nodes, LAMBDA n : n.t # "NULL")

\* The sub-nodes that a visitor of the platform's code generator passes to
\* Visit: every sub-expression; those of an object literal are the keys and
\* the values of its properties.
PlatformSubNodes(node) ==
    IF node.t = "ObjectLiteral"
    THEN [i \in 1..(2 * Len(node.kids)) |->
              node.kids[(i + 1) \div 2].kids[IF i % 2 = 1 THEN 1 ELSE 2]]
    ELSE NotNull(node.kids)

\* The sub-nodes that the code generator's visitor of a statement, of a
\* conditional, of an assignment, of a throw or of a catch extension object
\* passes to Visit, in the order of the calls; the visitors of the other
\* expressions are the platform's.
GeneratorSubNodes(node) ==
    CASE node.t \in {"Block", "ExpressionStatement", "ReturnStatement",
                     "WithEnterStatement", "IfStatement", "Conditional",
                     "Throw", "CatchExtensionObject"} -> node.kids
      [] node.t = "Assignment" ->
             (CASE LhsKind(node) = "VARIABLE" -> <<>>
                [] LhsKind(node) = "NAMED_PROPERTY" -> <<AsProperty(TargetOf(node)).kids[1]>>
                [] LhsKind(node) = "KEYED_PROPERTY" -> AsProperty(TargetOf(node)).kids)
                 \o <<ValueOf(node)>>
      [] node.t \in {"DoWhileStatement", "WhileStatement"} -> <<node.kids[2], node.kids[1]>>
      [] node.t = "ForStatement" ->
             NotNull(<<node.kids[1], node.kids[4], node.kids[3], node.kids[2]>>)
      [] node.t \in {"TryCatchStatement", "TryFinallyStatement"} ->
             <<node.kids[2], node.kids[1]>>
      [] node.t \in {"EmptyStatement", "ContinueStatement", "BreakStatement",
                     "WithExitStatement", "DebuggerStatement"} -> <<>>
      [] node.t \in UnreachableVisitors -> <<>>
      [] OTHER -> PlatformSubNodes(node)

\* The nodes visited when the code generator visits node, and when it visits
\* each node of a list.
RECURSIVE GeneratorVisits(_)
RECURSIVE GeneratorVisitsEach(_)
GeneratorVisitsEach(nodes) ==
    IF nodes = <<>> THEN <<>>
    ELSE GeneratorVisits(Head(nodes)) \o GeneratorVisitsEach(Tail(nodes))
GeneratorVisits(node) == <<node>> \o GeneratorVisitsEach(GeneratorSubNodes(node))

\* The nodes visited for the declarations: VisitDeclaration is called for
\* the declarations left to run time, a global is put into the array.
RECURSIVE GeneratorVisitsDeclarations(_)
GeneratorVisitsDeclarations(declarations) ==
    IF declarations = <<>> THEN <<>>
    ELSE (IF DeclaredAtRuntime(Head(declarations))
          THEN GeneratorVisitsEach(PlatformSubNodes(Head(declarations))) ELSE <<>>)
             \o GeneratorVisitsDeclarations(Tail(declarations))

\* The nodes visited when the code of fun is generated: the declarations of
\* the scope, then the statements of the body.
GeneratorVisitsFunction(fun) ==
    GeneratorVisitsDeclarations(fun.declarations) \o GeneratorVisitsEach(fun.body)

\* The nodes of the function at hand whose visitor is UNREACHABLE().
UnreachablesVisited ==
    {i \in DOMAIN GeneratorVisitsFunction(gate.fun) :
         GeneratorVisitsFunction(gate.fun)[i].t \in UnreachableVisitors}

\* C28: when the checker has accepted a function, the code generator visits
\* no switch statement, no for-in statement, no function boilerplate literal
\* and no bare slot in it, so that it reaches none of its UNREACHABLE()
\* visitors.
C28_AcceptedReachesNoUnreachable ==
    (gate # <<>> /\ gate.done /\ gate.has_supported_syntax_) => UnreachablesVisited = {}

\* An accepted function with a try/catch statement and a call in it: the
\* code generator visits both blocks and the arguments.
C28_Witness ==
    /\ gate # <<>> /\ gate.done /\ gate.has_supported_syntax_
    /\ LET visits == GeneratorVisitsFunction(gate.fun) IN
       /\ Len(visits) >= 9
       /\ \E i, j \in DOMAIN visits :
              visits[i].t = "TryCatchStatement" /\ visits[j].t = "Call" /\ i < j

\* A rejected function in which the code generator would visit a switch
\* statement, and one in which it would visit a function boilerplate
\* literal.
RejectedWithSwitch ==
    /\ gate # <<>> /\ gate.done /\ ~gate.has_supported_syntax_
    /\ \E i \in UnreachablesVisited :
           GeneratorVisitsFunction(gate.fun)[i].t = "SwitchStatement"
RejectedWithBoilerplate ==
    /\ gate # <<>> /\ gate.done /\ ~gate.has_supported_syntax_
    /\ \E i \in UnreachablesVisited :
           GeneratorVisitsFunction(gate.fun)[i].t = "FunctionBoilerplateLiteral"

\* C30: has_supported_syntax_ is monotonic during Check: a node visited
\* after a node that was visited with the flag cleared is also visited with
\* the flag cleared, and when a node was visited with the flag cleared the
\* function is rejected.
C30_RejectionIsFinal ==
    (gate # <<>> /\ gate.done) =>
        /\ \A i, j \in DOMAIN gate.visited :
               (i < j /\ ~gate.visited[i].ok) => ~gate.visited[j].ok
        /\ (\E i \in DOMAIN gate.visited : ~gate.visited[i].ok) => ~gate.has_supported_syntax_

\* A supported node, a parameter or a literal, was visited after the
\* rejection, and the function is rejected.
C30_Witness ==
    /\ gate # <<>> /\ gate.done /\ ~gate.has_supported_syntax_
    /\ \E i \in DOMAIN gate.visited :
           /\ ~gate.visited[i].ok
           /\ gate.visited[i].node.t \in {"VariableProxy", "Literal"}
           /\ ~RejectingConstruct(gate.visited[i].node, gate.always_fast_compiler)

(***************************************************************************)
(* Part V.  The loops, jumps and try statements of Part II, read from the  *)
(* emitted code and from its runs (specification SpecCg).                  *)
(***************************************************************************)

\* The compiled loops, and the positions of a loop's body, of its
\* stack-limit check, of its condition, and of the code for a tripped check.
Loops == {targets[i] : i \in {k \in DOMAIN targets : targets[k].kind \in {"DoWhile", "While", "For"}}}
BodyAt(loop) == bound[loop.body]
CondAt(loop) == bound[loop.stack_check_success]
CheckAt(loop) == CondAt(loop) - 1
HitAt(loop) == bound[loop.stack_limit_hit]
BreakAt(loop) == bound[loop.break_target]

\* The checker's verdict on one node.
Accepts(node, always_fast_compiler) ==
    SyntaxChecker_Visit(node, NewSyntaxChecker(always_fast_compiler)).has_supported_syntax_

\* The checker accepts a while statement whose condition and body it
\* accepts; and in the code of a while statement the jump that enters the
\* loop and the continue target lead to the stack-limit check, which stands
\* right before the condition.
WhileStatementLaidOut ==
    /\ status = "idle" =>
           \A n \in AllNodes : \A flag \in BOOLEAN :
               (n.t = "WhileStatement" /\ Accepts(n.kids[1], flag) /\ Accepts(n.kids[2], flag))
                   => Accepts(n, flag)
    /\ status # "idle" =>
           \A loop \in Loops : loop.kind = "While" =>
               /\ code[CheckAt(loop)] = [op |-> "StackLimitCheck", a |-> loop.stack_limit_hit,
                                         b |-> loop.stmt]
               /\ bound[loop.continue_target] = CheckAt(loop)
               /\ code[BodyAt(loop) - 1] = [op |-> "jmp", a |-> loop.continue_target, b |-> 0]
               /\ \A i \in DOMAIN jumps :
                      (jumps[i].kind = "continue" /\ jumps[i].target = loop.stmt)
                          => bound[jumps[i].label] = CheckAt(loop)

\* One step of the code of a while statement: the body is entered (from
\* outside the body: a loop that starts the body goes round inside it) only
\* from the condition's test; the condition is entered only from the stack-limit
\* check, or from the jump back after the call of the StackCheckStub; and
\* control that leaves the body and stays in the loop is at the check.
WhileStatementStep ==
    \A loop \in Loops :
        (loop.kind = "While" /\ status' = "running" /\ pc' # pc) =>
            /\ (pc' = BodyAt(loop) /\ pc \notin BodyAt(loop)..(CheckAt(loop) - 1)) =>
                   pc \in CondAt(loop)..(HitAt(loop) - 1) /\ code[pc].op \in {"jtrue", "jfalse", "jmp"}
            /\ pc' = CondAt(loop) =>
                   \/ pc = CheckAt(loop)
                   \/ pc = HitAt(loop) + 1 /\ code[HitAt(loop)].op = "CallStub_StackCheck"
            /\ (/\ pc \in BodyAt(loop)..(CheckAt(loop) - 1)
                /\ pc' \in ((BodyAt(loop) - 1)..(BreakAt(loop) - 1)) \ (BodyAt(loop)..(CheckAt(loop) - 1)))
                   => pc' = CheckAt(loop)

\* C11: a while statement is accepted by the syntax checker whenever its
\* condition and body are; in the emitted code the condition is evaluated
\* before the first execution of the body and again after every execution of
\* the body, continue included, and the stack-limit check is executed
\* immediately before each evaluation of the condition.
C11_WhileTestsAfterCheck == []WhileStatementLaidOut /\ [][WhileStatementStep]_vars

\* The body of a while loop is about to be executed again after a continue:
\* the stack limit was checked twice and the condition has just been tested.
C11_Witness ==
    /\ status = "running"
    /\ \E loop \in Loops :
           /\ loop.kind = "While" /\ pc = BodyAt(loop)
           /\ Cardinality({k \in DOMAIN trace :
                               trace[k].e = "check" /\ trace[k].id = loop.stmt}) >= 2
           /\ \E i \in DOMAIN jumps :
                  /\ jumps[i].kind = "continue" /\ jumps[i].target = loop.stmt
                  /\ \E k \in DOMAIN trace : trace[k] = Event("arrive", jumps[i].stmt, trace[k].v)

\* The events of the trace that belong to the body of a loop.
BodyOf(loop) == LET n == NodeById(loop.stmt) IN n.kids[Len(n.kids)]
BodyIds(loop) == {n.id : n \in Sub(BodyOf(loop))}
IsBodyEvent(loop, x) ==
    /\ x.e \in {"jump", "arrive", "store", "catch", "finally", "leave", "check"}
    /\ x.id \in BodyIds(loop)

\* The body of the loop has been executed and the test of the condition, or
\* the jump that stands for an absent condition, is about to go to the body.
AboutToRepeat(loop) ==
    /\ status = "running" /\ pc \in CondAt(loop)..(HitAt(loop) - 1)
    /\ \/ code[pc].op = "jtrue" /\ code[pc].a = loop.body /\ Truthy(eax)
       \/ code[pc].op = "jmp" /\ code[pc].a = loop.body
    /\ \E k \in DOMAIN trace : IsBodyEvent(loop, trace[k])

\* The stack-limit check of the loop was executed after the last event of
\* the loop's body.
CheckedSinceBody(loop) ==
    \E k \in DOMAIN trace :
        /\ trace[k].e = "check" /\ trace[k].id = loop.stmt
        /\ \A m \in DOMAIN trace : IsBodyEvent(loop, trace[m]) => m < k

\* C12: for do-while, while and for loops, on every path from the end of one
\* execution of the body, by falling off its end or by a continue, to the
\* next execution of the body the stack-limit check is executed.
C12_EveryIterationChecksTheStackLimit ==
    \A loop \in Loops : AboutToRepeat(loop) => CheckedSinceBody(loop)

\* What holds of C12: the while and for loops, and the do-while loops whose
\* body is not left by a continue of the loop.
ChecksTheStackLimitUnlessDoWhileContinue ==
    \A loop \in Loops :
        (AboutToRepeat(loop) /\ ~CheckedSinceBody(loop)) =>
            /\ loop.kind = "DoWhile"
            /\ \E i \in DOMAIN jumps :
                   /\ jumps[i].kind = "continue" /\ jumps[i].target = loop.stmt
                   /\ trace[Len(trace)] = Event("arrive", jumps[i].stmt, trace[Len(trace)].v)

\* In the code of every loop the tripped check leads to the call of the
\* StackCheckStub, which is followed by the jump to stack_check_success, the
\* position right after the check; and the instruction before the call is an
\* unconditional jump, so that the test of the condition does not fall
\* through into the call.
StackLimitHitLaidOut ==
    status # "idle" =>
        \A loop \in Loops :
            /\ code[CheckAt(loop)] = [op |-> "StackLimitCheck", a |-> loop.stack_limit_hit,
                                      b |-> loop.stmt]
            /\ code[HitAt(loop)].op = "CallStub_StackCheck"
            /\ HitAt(loop) + 1 \in DOMAIN code
            /\ code[HitAt(loop) + 1] = [op |-> "jmp", a |-> loop.stack_check_success, b |-> 0]
            /\ code[HitAt(loop) - 1].op = "jmp"

\* One step of a loop's code: the call of the stub is reached only from the
\* loop's own tripped check; from there control goes through the call and
\* the jump to the condition, and the operand stack, the result register,
\* the handler chain and the frame are those the check was reached with.
StackLimitHitStep ==
    \A loop \in Loops :
        (status = "running" /\ pc' # pc) =>
            /\ pc' = HitAt(loop) => pc = CheckAt(loop)
            /\ pc = CheckAt(loop) =>
                   pc' \in {CondAt(loop), HitAt(loop)} /\ UNCHANGED <<stack, eax, handler, frame>>
            /\ pc = HitAt(loop) =>
                   pc' = HitAt(loop) + 1 /\ UNCHANGED <<stack, eax, handler, frame>>
            /\ pc = HitAt(loop) + 1 =>
                   pc' = CondAt(loop) /\ UNCHANGED <<stack, eax, handler, frame>>

\* C13: when a loop's stack-limit check trips, the code calls the
\* StackCheckStub and jumps back to stack_check_success, so that the
\* condition is tested as if the check had passed; the call is reached only
\* through the tripped check, never by falling through from the test.
C13_TrippedCheckResumes == []StackLimitHitLaidOut /\ [][StackLimitHitStep]_vars

\* After a tripped check and the call of the stub, control is back at the
\* condition of a loop inside a try block, with the handler still in place.
C13_Witness ==
    /\ status = "running" /\ Len(trace) >= 2 /\ handler # 0
    /\ trace[Len(trace)].e = "stub"
    /\ \E loop \in Loops :
           /\ pc = CondAt(loop)
           /\ trace[Len(trace) - 1] = Event("check", loop.stmt, 1)

\* The labels of the compiled block or loop that is the statement stmt.
LabelsOf(stmt) ==
    CHOOSE t \in {targets[i] : i \in DOMAIN targets} :
        t.stmt = stmt /\ t.kind \in {"Block", "DoWhile", "While", "For"}

\* The kinds of scope a break, and a continue, can stop at.
StopsAt(kind) == IF kind = "break" THEN {"Breakable", "Iteration"} ELSE {"Iteration"}

\* The positions, in the scopes around a jump (innermost first), of the
\* scopes that are its target.
Matching(j) ==
    {i \in DOMAIN LexicalScopes(j.stmt) :
         /\ LexicalScopes(j.stmt)[i].kind \in StopsAt(j.kind)
         /\ LexicalScopes(j.stmt)[i].stmt = j.target}

\* C17: a break jumps to the break label, and a continue to the continue
\* label, of the innermost enclosing scope that is its target; the scopes
\* inside that one are those that get an Exit call, the chosen scope and the
\* scopes outside it get none; and a return stops at no scope.
C17_JumpsResolveToInnermostTarget ==
    status # "idle" =>
        \A i \in DOMAIN jumps :
            LET j == jumps[i]
                p == LexicalScopes(j.stmt)
            IN IF j.kind = "return"
               THEN j.scope = 0 /\ Len(j.exits) = Len(p)
               ELSE /\ Matching(j) # {}
                    /\ LET m == CHOOSE k \in Matching(j) : \A h \in Matching(j) : k <= h
                       IN /\ j.scope = p[m].stmt
                          /\ j.label = IF j.kind = "break"
                                       THEN LabelsOf(p[m].stmt).break_target
                                       ELSE LabelsOf(p[m].stmt).continue_target
                          /\ code[j.end] = [op |-> "jmp", a |-> j.label, b |-> 0]
                          /\ Len(j.exits) = m - 1
                          /\ \A k \in DOMAIN j.exits :
                                 Scope(j.exits[k].kind, j.exits[k].stmt) = p[k]

\* A continue inside an inner loop has just jumped to the stack-limit check
\* of the outer loop it targets.
C17_Witness ==
    /\ JustArrived /\ status = "running"
    /\ \E i \in DOMAIN jumps :
           /\ jumps[i].stmt = trace[Len(trace)].id
           /\ jumps[i].kind = "continue"
           /\ \E k \in DOMAIN jumps[i].exits : jumps[i].exits[k].kind = "Iteration"
           /\ pc = bound[LabelsOf(jumps[i].target).continue_target]
           /\ code[pc].op = "StackLimitCheck" /\ code[pc].b = jumps[i].target

\* The compiled try statements and the PopTryHandler instructions emitted.
TryStatements == {targets[i] : i \in {k \in DOMAIN targets : targets[k].kind \in {"TryCatch", "TryFinally"}}}
Pops == {targets[i] : i \in {k \in DOMAIN targets : targets[k].kind = "PopTryHandler"}}
TryOf(stmt) == CHOOSE t \in TryStatements : t.stmt = stmt

\* The handler records on the stack, each by the position of its last word,
\* and the records linked from the current handler.
Records == {i \in DOMAIN stack : stack[i].t = "next"}
RECURSIVE Chain(_)
Chain(h) == IF h \in Records THEN {h} \cup Chain(stack[h].v) ELSE {}

\* The record at position i was pushed by the try block of the statement:
\* its code address is the statement's handler code.
RecordOf(i, try) == i >= 4 /\ stack[i - 3] = Slot("ret", try.at)

\* C18: each handler record pushed by a try block is removed exactly once on
\* every path: every PopTryHandler, at the end of a try block or emitted by
\* TryCatch::Exit or TryFinally::Exit, removes the record of its own
\* statement, which is the current handler on top of the stack; no statement
\* has two records; all records are linked from the current handler, and
\* none is left when the function returns or throws; while control is in the
\* catch block or finally body of a statement its record is not on the
\* stack, and no jump compiled inside a catch block or finally body exits
\* the TryCatch or TryFinally scope of that statement.
C18_HandlerRemovedExactlyOnce ==
    status # "idle" =>
        /\ Records = Chain(handler) /\ (handler = 0 \/ handler \in Records)
        /\ \A p \in DOMAIN code : code[p].op = "PopTryHandler" => \E t \in Pops : t.at = p
        /\ \A t \in Pops :
               (status = "running" /\ pc = t.at) => HandlerOnTop /\ RecordOf(handler, TryOf(t.stmt))
        /\ \A try \in TryStatements :
               /\ Cardinality({i \in Records : RecordOf(i, try)}) <= 1
               /\ (status = "running" /\ pc \in try.at..(try.body - 1))
                      => ~\E i \in Records : RecordOf(i, try)
               /\ \A i \in DOMAIN jumps :
                      jumps[i].stmt \in {n.id : n \in Sub(NodeById(try.stmt).kids[2])}
                          => \A k \in DOMAIN jumps[i].exits :
                                 ~(/\ jumps[i].exits[k].stmt = try.stmt
                                   /\ jumps[i].exits[k].kind \in {"TryCatch", "TryFinally"})
        /\ status \in {"returned", "uncaught"} => handler = 0 /\ Records = {}

\* A break compiled in the finally body of a try statement inside the try
\* block of an outer one has left both: the exception's dispatch removed the
\* inner record, the break's TryFinally::Exit the outer one, and the function
\* has returned.
C18_Witness ==
    /\ status = "returned" /\ handler = 0
    /\ \E k \in DOMAIN trace : trace[k].e = "dispatch"
    /\ \E i \in DOMAIN jumps :
           /\ jumps[i].kind = "break"
           /\ \E k \in DOMAIN trace : trace[k] = Event("arrive", jumps[i].stmt, trace[k].v)
           /\ \E try \in TryStatements :
                  jumps[i].stmt \in {n.id : n \in Sub(NodeById(try.stmt).kids[2])}
           /\ \E k \in DOMAIN jumps[i].exits : jumps[i].exits[k].kind = "TryFinally"

\* The code of the function generated on a stack without limit.
CompleteCode ==
    GenerateFunction(function_scope.declarations, prog, FullCodeGenerator(FALSE, 0)).code

\* C16: if the code generator detects a stack overflow of its own recursion,
\* in a visit or while the boilerplate of a declared global function is
\* built, MakeCode returns the null handle; a code object it returns is never
\* made from partially emitted code; and after an overflow in
\* BuildBoilerplate VisitDeclarations has not called DeclareGlobals.
C16_StackOverflowMakesNoCode ==
    made # <<>> =>
        /\ made.stack_overflow => (made.is_null /\ code = <<>> /\ status = "failed")
        /\ made.overflow_in = "BuildBoilerplate" => (~made.declared /\ made.globals = <<>>)
        /\ ~made.is_null => (~made.stack_overflow /\ (trace = <<>> => code = CompleteCode))

\* The boilerplate of the second declared global function overflowed the
\* stack after the code of a run-time declaration had been emitted: there is
\* no code object although code was emitted.
C16_Witness ==
    /\ made # <<>> /\ made.is_null /\ made.overflow_in = "BuildBoilerplate"
    /\ made.emitted > 2
    /\ status = "failed" /\ code = <<>>
    /\ Len(function_scope.declarations) = 2
    /\ function_scope.declarations[2].kids[2].t = "FunctionLiteral"
    /\ DeclaredAtRuntime(function_scope.declarations[1])

\* The stack overflowed in a nested visit of the body, after the globals had
\* been declared.
OverflowInVisit ==
    /\ made # <<>> /\ made.is_null /\ made.overflow_in = "Visit"
    /\ made.declared /\ made.emitted > 3

\* A function with declarations was compiled on a limited stack that was
\* deep enough, and its code has run to the end.
CompiledOnLimitedStack ==
    /\ made # <<>> /\ ~made.is_null /\ function_scope.stack_limited
    /\ made.declared /\ Len(made.globals) = 4 /\ status = "returned"

(***************************************************************************)
(* The declarations of the function compiled.                              *)
(***************************************************************************)

\* The instructions emitted by VisitDeclaration for a declaration, the
\* name/value pairs of the globals array that name its variable, and the
\* calls of DeclareGlobals.
DeclareInstructionsOf(decl) ==
    {i \in DOMAIN code : code[i].op = "Declare" /\ code[i].b = decl.id}
PairsOf(decl) ==
    {k \in 1..(Len(made.globals) \div 2) :
         made.globals[2 * k - 1] = Element("name", decl.kids[1].id)}
DeclareGlobalsInstructions == {i \in DOMAIN code : code[i].op = "DeclareGlobals"}

\* The value recorded for a global: the function, the hole for a constant,
\* undefined for a variable.
GlobalValueOf(decl) ==
    IF decl.kids[2].t # "NULL" THEN Element("function", decl.kids[2].id)
    ELSE IF mode(decl.kids[1].op) = "CONST" THEN Element("the_hole", 0)
    ELSE Element("undefined", 0)

\* The declarations of global variables that are allocated at compile time.
GlobalsOf(declarations) ==
    {i \in DOMAIN declarations :
         /\ is_global(declarations[i].kids[1].op)
         /\ slot_type(declarations[i].kids[1].op) # "LOOKUP"}

\* C29: VisitDeclarations handles every declaration exactly once: a
\* declaration of a variable that is not global, or that has a LOOKUP slot,
\* is passed to VisitDeclaration once and is not in the globals array; any
\* other declaration is one name/value pair of the array and is not passed
\* to VisitDeclaration.  When the stack has not overflowed the array holds
\* 2 * globals elements, and DeclareGlobals is called once, with this array,
\* if there are globals and not at all otherwise.
C29_EveryDeclarationHandledOnce ==
    (made # <<>> /\ ~made.stack_overflow) =>
        LET declarations == function_scope.declarations
            globals == Cardinality(GlobalsOf(declarations))
        IN /\ \A i \in DOMAIN declarations :
                  LET decl == declarations[i] IN
                  /\ Cardinality(DeclareInstructionsOf(decl)) + Cardinality(PairsOf(decl)) = 1
                  /\ Cardinality(DeclareInstructionsOf(decl)) = 1 <=> i \notin GlobalsOf(declarations)
                  /\ \A k \in PairsOf(decl) : made.globals[2 * k] = GlobalValueOf(decl)
           /\ Len(made.globals) = 2 * globals
           /\ Cardinality(DeclareGlobalsInstructions) = IF globals > 0 THEN 1 ELSE 0
           /\ made.declared <=> globals > 0
           /\ \A i \in DeclareGlobalsInstructions : code[i].a = 2 * globals

\* A function with a global function and a global variable with a LOOKUP
\* slot was compiled on a limited stack that did not overflow: the variable
\* went to VisitDeclaration, the function into the array.
C29_Witness ==
    /\ made # <<>> /\ ~made.stack_overflow /\ function_scope.stack_limited
    /\ Len(function_scope.declarations) = 2
    /\ function_scope.declarations[1].kids[2].t = "FunctionLiteral"
    /\ function_scope.declarations[2].kids[1].op = "global_lookup"
    /\ Len(made.globals) = 2 /\ made.declared
    /\ Cardinality(DeclareInstructionsOf(function_scope.declarations[2])) = 1

\* Two globals were declared: the array has four elements.
TwoGlobalsDeclared ==
    /\ made # <<>> /\ ~made.stack_overflow
    /\ Cardinality(GlobalsOf(function_scope.declarations)) = 2
    /\ Len(made.globals) = 4

(***************************************************************************)
(* The nesting stack during the compilation.                                *)
(***************************************************************************)

\* The node types that are statements.
StatementTypes ==
    {"Block", "ExpressionStatement", "EmptyStatement", "IfStatement", "ContinueStatement",
     "BreakStatement", "ReturnStatement", "DoWhileStatement", "WhileStatement",
     "ForStatement", "TryCatchStatement", "TryFinallyStatement"}

\* The nodes of the function's body, by id.
BodyNodeIds == {n.id : n \in AllNodes}

\* A nesting stack read as the kinds and statements of its records.
RECURSIVE ScopesOf(_)
ScopesOf(nesting) ==
    IF nesting = <<>> THEN <<>>
    ELSE <<Scope(Head(nesting).kind, Head(nesting).stmt)>> \o ScopesOf(Tail(nesting))

\* The statement or expression that the node numbered id is a part of, and
\* which part; <<>> for the statements of the function body.
ParentsOf(id) ==
    {<<n, k>> \in AllNodes \X (1..4) : k \in DOMAIN n.kids /\ n.kids[k].id = id}

\* C23: the nesting stack is strictly LIFO and mirrors lexical nesting: when
\* a node is visited the nesting stack holds exactly the records of the
\* blocks, loops, try blocks and finally bodies around it, innermost first
\* (so the record of the block, loop body, try block or finally body whose
\* statement is being compiled is the innermost entry), and when the visit
\* of any statement returns the nesting stack is what it was before; it is
\* empty when the function is done.
C23_NestingStackMirrorsLexicalNesting ==
    (made # <<>> /\ ~made.stack_overflow) =>
        /\ made.nesting_stack_ = <<>>
        /\ \A i \in DOMAIN made.visits :
               LET v == made.visits[i] IN
               /\ v.after = v.before
               /\ v.id \in BodyNodeIds =>
                      /\ ScopesOf(v.before) = LexicalScopes(v.id)
                      /\ \A p \in ParentsOf(v.id) :
                             ScopeOf(p[1], p[2]) # "" =>
                                 /\ v.before # <<>>
                                 /\ Head(v.before).kind = ScopeOf(p[1], p[2])
                                 /\ Head(v.before).stmt = p[1].id
        /\ \A id \in {n.id : n \in {x \in AllNodes : x.t \in StatementTypes}} :
               \E i \in DOMAIN made.visits : made.visits[i].id = id

\* A return statement was compiled in a finally body inside a try block
\* inside a loop: under a Finally, a TryFinally and an Iteration record, in
\* this order from the innermost, and the blocks between them.
C23_Witness ==
    /\ made # <<>> /\ ~made.stack_overflow
    /\ \E i \in DOMAIN made.visits :
           LET before == made.visits[i].before IN
           /\ made.visits[i].t = "ReturnStatement"
           /\ made.visits[i].after = before
           /\ \E f, t, l \in DOMAIN before :
                  /\ f < t /\ t < l
                  /\ before[f].kind = "Finally"
                  /\ before[t].kind = "TryFinally"
                  /\ before[l].kind = "Iteration"
                  /\ \A k \in 1..(f - 1) : before[k].kind = "Breakable"

(***************************************************************************)
(* The instructions of a break, continue or return.                         *)
(***************************************************************************)

\* What Drop emits for a depth.
DropOf(depth) == IF depth > 0 THEN <<<<"add_esp", depth>>>> ELSE <<>>

\* The instructions that leaving the scopes, innermost first, calls for when
\* depth operand-stack slots have been accumulated, and the final Drop.
RECURSIVE ExitsOf(_, _)
ExitsOf(scopes, depth) ==
    IF scopes = <<>> THEN DropOf(depth)
    ELSE CASE Head(scopes).kind = "Finally" ->
                  ExitsOf(Tail(scopes), depth + kFinallyStackElementCount)
           [] Head(scopes).kind = "TryCatch" ->
                  DropOf(depth) \o <<<<"PopTryHandler", 0>>>> \o ExitsOf(Tail(scopes), 0)
           [] Head(scopes).kind = "TryFinally" ->
                  DropOf(depth) \o <<<<"PopTryHandler", 0>>, <<"call", 0>>>>
                      \o ExitsOf(Tail(scopes), 0)
           [] OTHER -> ExitsOf(Tail(scopes), depth)

\* The instructions emitted for the jump before its jmp or return sequence.
EmittedFor(j) ==
    [q \in 1..(j.end - j.start) |->
        <<code[j.start + q - 1].op,
          IF code[j.start + q - 1].op = "add_esp" THEN code[j.start + q - 1].a ELSE 0>>]

RECURSIVE SumOfDrops(_)
SumOfDrops(instructions) ==
    IF instructions = <<>> THEN 0
    ELSE Head(instructions)[2] + SumOfDrops(Tail(instructions))

\* C24: TryCatch::Exit and TryFinally::Exit first emit a Drop of the depth
\* accumulated from the scopes inside, then PopTryHandler (TryFinally::Exit
\* then the call of the finally block), and return 0, so that the handler
\* record is on top of the stack when it is popped; across a whole break,
\* continue or return every accumulated slot (the two of each finally body
\* left) is dropped exactly once, inside an Exit or by the final Drop at the
\* jump site, and Drop emits nothing for a depth of 0.
C24_AccumulatedSlotsDroppedOnce ==
    /\ status # "idle" =>
           /\ \A i \in DOMAIN jumps :
                  /\ EmittedFor(jumps[i]) = ExitsOf(Crossed(jumps[i]), 0)
                  /\ SumOfDrops(EmittedFor(jumps[i])) =
                         kFinallyStackElementCount
                             * Len(SelectSeq(Crossed(jumps[i]), IsFinally))
           /\ \A q \in DOMAIN code : code[q].op = "add_esp" => code[q].a > 0
    /\ (Running /\ code[pc].op = "PopTryHandler") => (HandlerOnTop /\ handler = Len(stack))
    /\ ReturnsClean

\* A break in a finally body that leaves a try block around it was compiled:
\* the two slots of the finally body are dropped before the handler is
\* popped, and nothing is dropped at the jump.
C24_Witness ==
    /\ status = "running"
    /\ \E i \in DOMAIN jumps :
           /\ jumps[i].kind = "break"
           /\ \E k \in 1..(jumps[i].end - jumps[i].start - 1) :
                  /\ EmittedFor(jumps[i])[k] = <<"add_esp", kFinallyStackElementCount>>
                  /\ EmittedFor(jumps[i])[k + 1] = <<"PopTryHandler", 0>>
           /\ jumps[i].final_drop = 0
           /\ code[jumps[i].end - 1].op = "call"
    /\ \E i \in DOMAIN trace : trace[i].e = "arrive"

(***************************************************************************)
(* The try/catch statement.  In the record of a compiled try/catch          *)
(* statement, at is the position of its handler code (the store to the      *)
(* catch variable) and body the position of its PushTryHandler; the catch   *)
(* block lies between them, followed by the jump over the try block.        *)
(***************************************************************************)

TryCatchStatements == {t \in TryStatements : t.kind = "TryCatch"}

\* The positions of the catch block's instructions.
CatchBlockOf(try) == (try.at + 1)..(try.body - 2)

\* The position of the PopTryHandler that ends the try block.
TryBlockEndOf(try) ==
    CHOOSE p \in {x.at : x \in {y \in Pops : y.stmt = try.stmt}} :
        \A x \in Pops : x.stmt = try.stmt => x.at <= p

\* The code of a try/catch statement: the call of the handler setup, the
\* store of the result register to the catch variable, the catch block, the
\* jump to the end of the statement; then PushTryHandler, the try block and
\* its PopTryHandler, after which the statement ends.
TryCatchLaidOut ==
    status # "idle" =>
        \A try \in TryCatchStatements :
            /\ code[try.at - 1].op = "call" /\ bound[code[try.at - 1].a] = try.body
            /\ code[try.at].op = "StoreToFrameField"
            /\ code[try.at].a = NodeById(try.stmt).v
            /\ code[try.body - 1].op = "jmp"
            /\ bound[code[try.body - 1].a] = TryBlockEndOf(try) + 1
            /\ code[try.body].op = "PushTryHandler" /\ code[try.body].a = TRY_CATCH_HANDLER
            /\ try.body < TryBlockEndOf(try)

\* Control reaches the handler code of a try/catch statement only by the
\* dispatch of an exception to the handler record that the statement pushed;
\* the exception is then in the result register.
DispatchStep ==
    \A try \in TryCatchStatements :
        (status = "running" /\ pc' = try.at /\ pc' # pc) =>
            /\ code[pc].op \in {"CallRuntime_kThrow", "CallRuntime_kReThrow"}
            /\ HandlerIntact
            /\ stack[handler - 3] = Slot("ret", try.at)
            /\ stack[handler - 2] = Slot("state", TRY_CATCH_HANDLER)
            /\ eax' = Top(1).v
            /\ handler' = stack[handler].v
            /\ trace'[Len(trace')] = Event("dispatch", try.at, eax')

\* Control enters the catch block only from the store to the catch variable,
\* which has put the exception dispatched into the variable's slot.
CatchBlockStep ==
    \A try \in TryCatchStatements :
        (status = "running" /\ pc' = try.at + 1 /\ pc \notin CatchBlockOf(try)
             /\ pc' # pc) =>
            /\ pc = try.at
            /\ trace # <<>> /\ trace[Len(trace)] = Event("dispatch", try.at, eax)
            /\ frame'[NodeById(try.stmt).v] = eax
            /\ eax' = eax

\* When the try block completes its handler is popped and control continues
\* after the statement; the catch block is not executed.
TryBlockEndStep ==
    \A try \in TryCatchStatements :
        (status = "running" /\ pc = TryBlockEndOf(try) /\ pc' # pc) =>
            /\ HandlerOnTop /\ stack[handler - 3] = Slot("ret", try.at)
            /\ handler' = stack[handler].v
            /\ pc' = TryBlockEndOf(try) + 1
            /\ pc' \notin try.at..(try.body - 1)

\* C25: in a try/catch statement the catch block executes only when an
\* exception is dispatched to the statement's handler, and the exception in
\* the result register is then stored in the catch variable's local slot
\* before the first instruction of the catch block; when the try block
\* completes normally its handler is popped and control continues after the
\* statement without executing the catch block.
C25_CatchOnlyOnDispatch ==
    /\ []TryCatchLaidOut
    /\ [][DispatchStep /\ CatchBlockStep /\ TryBlockEndStep]_vars

\* An exception thrown in a try block was dispatched to the statement's
\* handler, stored in the catch variable, and the catch block has been run.
C25_Witness ==
    /\ status = "returned"
    /\ \E try \in TryCatchStatements : \E k \in DOMAIN trace :
           /\ k > 1
           /\ trace[k - 1] = Event("dispatch", try.at, 4)
           /\ trace[k] = Event("catch", try.stmt, 4)
           /\ frame[NodeById(try.stmt).v] = 4
           /\ CatchBlockOf(try) # {}

\* A try block has completed and the code after the try/catch statement has
\* run, with no exception thrown.
TryBlockCompleted ==
    /\ status = "returned"
    /\ TryCatchStatements # {}
    /\ \A k \in DOMAIN trace : trace[k].e \notin {"throw", "dispatch", "catch"}

(***************************************************************************)
(* The handler chain on the stack.                                          *)
(***************************************************************************)

\* Every handler record on the stack is four words (return address, state,
\* frame pointer, next) whose next field is the record below it or 0, and the
\* current-handler reference is the topmost record.
HandlerChainLaidOut ==
    /\ \A i \in Records :
           /\ i >= 4
           /\ stack[i - 1].t = "fp" /\ stack[i - 2].t = "state" /\ stack[i - 3].t = "ret"
           /\ stack[i].v \in 0..(i - 4)
           /\ stack[i].v = (IF \E k \in Records : k < i
                            THEN CHOOSE k \in Records :
                                     k < i /\ \A l \in Records : l < i => l <= k
                            ELSE 0)
    /\ handler = (IF Records = {} THEN 0
                  ELSE CHOOSE k \in Records : \A l \in Records : l <= k)

\* A step of PushTryHandler: three words go above the return address that is
\* on top of the stack, the new record's next field is the previous handler
\* and the current-handler reference is the new record.
PushTryHandlerStep ==
    (Running /\ code[pc].op = "PushTryHandler") =>
        /\ Len(stack) >= 1 /\ Top(1).t = "ret"
        /\ Len(stack') = Len(stack) + 3
        /\ SubSeq(stack', 1, Len(stack)) = stack
        /\ stack'[Len(stack) + 1] = Slot("state", code[pc].a)
        /\ stack'[Len(stack) + 2].t = "fp"
        /\ stack'[Len(stack) + 3] = Slot("next", handler)
        /\ handler' = Len(stack')

\* A step of PopTryHandler: the record popped is the current handler, on top
\* of the stack; the current-handler reference goes back to the previous
\* handler and the four words of StackHandlerConstants::kSize are removed,
\* the return address included.
PopTryHandlerStep ==
    (Running /\ code[pc].op = "PopTryHandler") =>
        /\ status' = "running"
        /\ handler = Len(stack) /\ HandlerIntact
        /\ handler' = stack[handler].v
        /\ stack' = SubSeq(stack, 1, Len(stack) - StackHandlerConstants_kSize \div kPointerSize)
        /\ Len(stack') = handler - 4
        /\ handler' <= Len(stack')

\* C22: PushTryHandler(IN_JAVASCRIPT, type) followed by PopTryHandler is
\* neutral for the stack and the handler chain: the push puts three words
\* above the return address already on the stack and links the new record
\* to the previous handler, which its next field holds; the pop restores the
\* current-handler reference to that previous handler and removes all four
\* words, so the stack is as it was before the call that pushed the return
\* address.
C22_PushPopTryHandlerNeutral ==
    /\ []HandlerChainLaidOut
    /\ [][PushTryHandlerStep /\ PopTryHandlerStep]_vars

\* The handler of an inner try statement was pushed and popped again inside
\* an outer try block, no exception was thrown, and the outer handler is the
\* current one, its record on top of the stack.
C22_Witness ==
    /\ status = "running" /\ pc \in 2..Len(code)
    /\ code[pc - 1].op = "PopTryHandler"
    /\ \E t \in DOMAIN targets :
           /\ targets[t].kind \in {"TryCatch", "TryFinally"}
           /\ targets[t].body < pc - 1
           /\ \A q \in (targets[t].body + 1)..(pc - 2) : code[q].op \notin {"jmp", "call"}
    /\ \A i \in DOMAIN trace : trace[i].e \notin {"throw", "rethrow", "dispatch", "jump"}
    /\ handler > 0 /\ handler = Len(stack) /\ HandlerIntact

(***************************************************************************)
(* Part VI.  The macro assembler while the code of a stub is generated      *)
(* (CodeStub::GenerateCode in src/src/code-stubs.cc and the entry points of *)
(* src/src/ia32/macro-assembler-ia32.cc that request stubs).  masm is the   *)
(* assembler that GetCode or TryGetCode constructs for one stub: its two    *)
(* flags, the instructions emitted, a log of the assertions evaluated and   *)
(* of the code objects obtained, the value returned by the operation        *)
(* performed last, and the stub cache (st) that the nested requests work    *)
(* on.  The generator is any sequence of the operations below.              *)
(***************************************************************************)

\* The operations a generator performs before it returns.
MaxOps == 2

\* The runtime functions a generator calls: Runtime::kAbort and one that
\* takes any number of arguments.
RuntimeFunctions == {kAbort, [stub_id |-> 1, nargs |-> -1]}

\* The stubs a generator asks for by name.
RequestedStubs == {[major |-> "RecordWrite", minor |-> 0], RuntimeStub(kAbort.stub_id, 2)}

\* A stub's GetCode or TryGetCode has missed the cache and constructed its
\* assembler.
InitMasm ==
    /\ CacheEmpty /\ NoFunction /\ NoCheck /\ NoRecordWriteStub
    /\ masm \in {NewMacroAssembler(allows_stub_calls, debug, debug_code) :
                     allows_stub_calls \in BOOLEAN, debug \in BOOLEAN, debug_code \in BOOLEAN}

\* CodeStub::GenerateCode up to its call of Generate(masm).
EnterGenerateCode ==
    /\ masm.phase = "constructed"
    /\ masm' = [masm EXCEPT !.st.counter = @ + 1,
                            !.allow_stub_calls_ = masm.AllowsStubCalls,
                            !.generating_stub_ = TRUE,
                            !.phase = "generating"]
    /\ UNCHANGED <<stubVars, cgVars, gateVars, keyVars>>

\* Generate(masm) is running and may perform another operation.
InGenerate == masm.phase = "generating" /\ ~masm.fatal /\ masm.ops < MaxOps

\* The generator has performed the operation op, which left the assembler as m.
Performed(op, stub, f, num_arguments, m) ==
    /\ masm' = [m EXCEPT !.ops = @ + 1,
                         !.last = [op |-> op, stub |-> stub, nargs |-> f.nargs,
                                   num_arguments |-> num_arguments,
                                   emitted |-> SubSeq(m.buffer, Len(masm.buffer) + 1, Len(m.buffer)),
                                   from |-> Len(masm.log) + 1,
                                   returned |-> m.result,
                                   pre_st |-> masm.st,
                                   pre_allow |-> masm.allow_stub_calls_]]
    /\ UNCHANGED <<stubVars, cgVars, gateVars, keyVars>>

GenerateCallStub ==
    /\ InGenerate
    /\ \E stub \in RequestedStubs : \E m \in {CallStub(masm, stub)} :
           Performed("CallStub", stub, kAbort, 0, m)

GenerateTailCallStub ==
    /\ InGenerate
    /\ \E stub \in RequestedStubs : \E m \in {TailCallStub(masm, stub)} :
           Performed("TailCallStub", stub, kAbort, 0, m)

GenerateTryCallStub ==
    /\ InGenerate
    /\ \E stub \in RequestedStubs, create_fails \in BOOLEAN, put_fails \in BOOLEAN :
           \E m \in {TryCallStub(masm, stub, create_fails, put_fails)} :
               Performed("TryCallStub", stub, kAbort, 0, m)

GenerateTryTailCallStub ==
    /\ InGenerate
    /\ \E stub \in RequestedStubs, create_fails \in BOOLEAN, put_fails \in BOOLEAN :
           \E m \in {TryTailCallStub(masm, stub, create_fails, put_fails)} :
               Performed("TryTailCallStub", stub, kAbort, 0, m)

\* The entry points of the runtime that a generator jumps to.
ExternalReferences == {"f"}

GenerateJumpToRuntime ==
    /\ InGenerate
    /\ \E ext \in ExternalReferences : \E m \in {JumpToRuntime(masm, ext)} :
           Performed("JumpToRuntime", CEntryStub1, kAbort, 0, m)

GenerateTailCallRuntime ==
    /\ InGenerate
    /\ \E ext \in ExternalReferences, num_arguments \in {0, 1} :
           \E m \in {TailCallRuntime(masm, ext, num_arguments, 1)} :
               Performed("TailCallRuntime", CEntryStub1, kAbort, num_arguments, m)

GenerateCallRuntime ==
    /\ InGenerate
    /\ \E f \in RuntimeFunctions, num_arguments \in {0, 2} :
           \E m \in {MacroAssembler_CallRuntime(masm, f, num_arguments)} :
               Performed("CallRuntime", RuntimeStub(f.stub_id, num_arguments), f, num_arguments, m)

GenerateTryCallRuntime ==
    /\ InGenerate
    /\ \E f \in RuntimeFunctions, num_arguments \in {0, 2},
          create_fails \in BOOLEAN, put_fails \in BOOLEAN :
           \E m \in {TryCallRuntime(masm, f, num_arguments, create_fails, put_fails)} :
               Performed("TryCallRuntime", RuntimeStub(f.stub_id, num_arguments), f, num_arguments, m)

GenerateCheck ==
    /\ InGenerate
    /\ \E m \in {MacroAssembler_Check(masm)} : Performed("Check", CEntryStub1, kAbort, 0, m)

GenerateAssert ==
    /\ InGenerate
    /\ \E m \in {MacroAssembler_Assert(masm)} : Performed("Assert", CEntryStub1, kAbort, 0, m)

GenerateAbort ==
    /\ InGenerate
    /\ \E m \in {Abort(masm)} : Performed("Abort", CEntryStub1, kAbort, 0, m)

\* Generate(masm) returns to GenerateCode, which returns to its caller.
ReturnFromGenerate ==
    /\ masm.phase = "generating" /\ ~masm.fatal
    /\ masm' = [masm EXCEPT !.phase = "generated"]
    /\ UNCHANGED <<stubVars, cgVars, gateVars, keyVars>>

NextMasm ==
    \/ EnterGenerateCode
    \/ GenerateCallStub
    \/ GenerateTailCallStub
    \/ GenerateTryCallStub
    \/ GenerateTryTailCallStub
    \/ GenerateJumpToRuntime
    \/ GenerateTailCallRuntime
    \/ GenerateCallRuntime
    \/ GenerateTryCallRuntime
    \/ GenerateCheck
    \/ GenerateAssert
    \/ GenerateAbort
    \/ ReturnFromGenerate

SpecMasm == InitMasm /\ [][NextMasm]_vars

(***************************************************************************)
(* Claims about stub calls while a stub is generated                        *)
(***************************************************************************)

\* An Abort was performed before the i-th entry of the log.
AbortedBefore(i) == \E j \in 1..(i - 1) : masm.log[j].op = "Abort"

\* Generate(masm) of a stub whose AllowsStubCalls() is false has been entered.
GeneratingLeaf ==
    masm.phase \in {"generating", "generated"} /\ ~masm.AllowsStubCalls

\* The operation performed last is a CallRuntime or TryCallRuntime with a
\* number of arguments that the runtime function does not take.
MismatchedLast ==
    /\ masm.last.op \in {"CallRuntime", "TryCallRuntime"}
    /\ ArgumentCountMismatch(masm.last, masm.last.num_arguments)

\* The operation performed last is one that reaches CallStub, TailCallStub,
\* TryCallStub or TryTailCallStub.
AssertsLast ==
    \/ masm.last.op \in {"CallStub", "TailCallStub", "TryCallStub", "TryTailCallStub"}
    \/ masm.last.op \in {"CallRuntime", "TryCallRuntime"} /\ ~MismatchedLast

\* The operation performed last is one that reaches no assertion.
AssertsNothingLast ==
    MismatchedLast \/ masm.last.op \in {"JumpToRuntime", "TailCallRuntime"}

\* C21 as stated: while the code of a stub whose AllowsStubCalls() is false is
\* generated, allow_stub_calls() stays false until Generate returns, whatever
\* operations the generator uses, and every assertion on it is violated.
C21_Original ==
    GeneratingLeaf =>
        /\ ~masm.allow_stub_calls_
        /\ \A i \in DOMAIN masm.log : masm.log[i].op = "ASSERT" => ~masm.log[i].allowed

\* C21 (amended): while the code of a stub whose AllowsStubCalls() is false is
\* generated, allow_stub_calls() is false until the generator reaches Abort
\* (directly, through Check, or through Assert when --debug-code is set) and
\* true from then on until Generate returns: Abort enables stub calls and
\* does not restore the flag.  The CallStub, TailCallStub, TryCallStub or
\* CallRuntime of the generator violate the assertion exactly when no Abort
\* came before them; the CallRuntime inside Abort never does.  An Assert
\* without --debug-code emits nothing and leaves the flag alone.  Each of
\* CallStub, TailCallStub, TryCallStub, TryTailCallStub, and of CallRuntime
\* and TryCallRuntime with a matching argument count, evaluates the assertion
\* first, on the flag as it was, and stops a DEBUG build when it is violated;
\* a CallRuntime or TryCallRuntime with an argument-count mismatch, a
\* JumpToRuntime and a TailCallRuntime evaluate no assertion, never stop the
\* build and leave the flag alone.
C21_StubCallsDisallowedUntilAbort ==
    /\ GeneratingLeaf =>
           /\ masm.allow_stub_calls_ = AbortedBefore(Len(masm.log) + 1)
           /\ \A i \in DOMAIN masm.log :
                  masm.log[i].op = "ASSERT" => (masm.log[i].allowed = AbortedBefore(i))
           /\ masm.fatal => (masm.DEBUG /\ ~masm.allow_stub_calls_)
    /\ (masm.phase # "constructed" /\ masm.AllowsStubCalls) =>
           /\ masm.allow_stub_calls_ /\ ~masm.fatal
           /\ \A i \in DOMAIN masm.log : masm.log[i].allowed
    /\ (masm.last.op = "Assert" /\ ~masm.FLAG_debug_code) =>
           /\ masm.last.emitted = <<>>
           /\ masm.last.from = Len(masm.log) + 1
           /\ masm.allow_stub_calls_ = masm.last.pre_allow
    /\ masm.last.op \in {"Abort", "Check"} \/ (masm.last.op = "Assert" /\ masm.FLAG_debug_code) =>
           /\ masm.allow_stub_calls_
           /\ \E i \in masm.last.from..Len(masm.log) :
                  masm.log[i].op = "ASSERT" /\ masm.log[i].allowed
    /\ AssertsLast =>
           /\ masm.last.from <= Len(masm.log)
           /\ masm.log[masm.last.from].op = "ASSERT"
           /\ masm.log[masm.last.from].allowed = masm.last.pre_allow
           /\ \A i \in (masm.last.from + 1)..Len(masm.log) : masm.log[i].op # "ASSERT"
           /\ masm.fatal = (masm.DEBUG /\ ~masm.last.pre_allow)
           /\ masm.allow_stub_calls_ = masm.last.pre_allow
           /\ GeneratingLeaf => (masm.last.pre_allow = AbortedBefore(masm.last.from))
    /\ AssertsNothingLast =>
           /\ \A i \in masm.last.from..Len(masm.log) : masm.log[i].op # "ASSERT"
           /\ ~masm.fatal
           /\ masm.allow_stub_calls_ = masm.last.pre_allow

\* The generator of a stub that allows no stub calls used Check and then
\* CallStub, whose assertion held and whose call was emitted.
C21_Witness ==
    /\ GeneratingLeaf /\ masm.phase = "generated"
    /\ masm.last.op = "CallStub" /\ masm.last.pre_allow
    /\ \E i \in 1..(masm.last.from - 1) : masm.log[i].op = "Abort" /\ ~masm.log[i].allowed
    /\ masm.log[masm.last.from].op = "ASSERT" /\ masm.log[masm.last.from].allowed
    /\ Len(masm.last.emitted) = 1 /\ masm.last.emitted[1].op = "call"

\* A call violated the assertion in a build without DEBUG and went through.
LeafCallsUnnoticed ==
    /\ GeneratingLeaf /\ ~masm.DEBUG
    /\ masm.last.op = "TailCallStub" /\ ~masm.last.pre_allow
    /\ Len(masm.last.emitted) = 1

\* The entries of the log written by the operation performed last.
LastLog == SubSeq(masm.log, masm.last.from, Len(masm.log))

\* The operation performed last passed its assertion and called TryGetCode.
TriedLast(ops) ==
    /\ masm.last.op \in ops /\ ~masm.fatal
    /\ masm.last.op = "TryCallRuntime" =>
           ~ArgumentCountMismatch(masm.last, masm.last.num_arguments)

\* C26: TryCallStub and TryTailCallStub emit the call or jump if and only if
\* TryGetCode returned a code object, and return what TryGetCode returned;
\* TryCallRuntime returns that in turn (its instruction is a call), except
\* that on an argument-count mismatch it emits IllegalOperation, requests no
\* stub and returns a value that is not a failure.
C26_TryCallsReturnTryGetCodesResult ==
    /\ TriedLast({"TryCallStub", "TryTailCallStub", "TryCallRuntime"}) =>
           /\ Len(LastLog) = 2 /\ LastLog[2].op = "TryGetCode"
           /\ masm.last.returned = [failure |-> LastLog[2].failure, code |-> LastLog[2].code]
           /\ LastLog[2].failure <=> masm.last.emitted = <<>>
           /\ ~LastLog[2].failure =>
                  /\ masm.last.emitted =
                         <<[op |-> IF masm.last.op = "TryTailCallStub" THEN "jmp" ELSE "call",
                            a |-> LastLog[2].code]>>
                  /\ LastLog[2].code \in 1..Len(masm.st.heap)
                  /\ masm.st.heap[LastLog[2].code].key = GetKey(masm.last.stub)
           /\ LastLog[2].failure => LastLog[2].code = 0
    /\ (/\ masm.last.op = "TryCallRuntime"
        /\ ArgumentCountMismatch(masm.last, masm.last.num_arguments)) =>
           /\ LastLog = <<>>
           /\ masm.st = masm.last.pre_st
           /\ ~masm.last.returned.failure
           /\ masm.last.emitted =
                  (IF masm.last.num_arguments > 0
                   THEN <<[op |-> "add_esp", a |-> masm.last.num_arguments * kPointerSize]>>
                   ELSE <<>>) \o <<[op |-> "mov_eax", a |-> Undefined]>>

\* A TryCallStub whose TryGetCode failed emitted nothing and returned the
\* failure, after a TryTailCallStub emitted its jump.
C26_Witness ==
    /\ TriedLast({"TryCallStub"}) /\ masm.last.returned.failure
    /\ masm.last.emitted = <<>>
    /\ \E i \in DOMAIN masm.buffer : masm.buffer[i].op = "jmp"

\* A TryCallRuntime with the wrong number of arguments emitted IllegalOperation.
MismatchedTryCallRuntime ==
    /\ masm.last.op = "TryCallRuntime"
    /\ ArgumentCountMismatch(masm.last, masm.last.num_arguments)
    /\ Len(masm.last.emitted) = 1

====
